---- MODULE Spec2Model ----
(***************************************************************************)
(* The conversation correlation and classification engine of the LSP       *)
(* logging server (server/src/message.rs, server/src/session.rs).          *)
(*                                                                         *)
(* A session's messages are handed to Conversation::from, which indexes    *)
(* the requests by id and by work-done token; classify and get_source      *)
(* then annotate single messages against that index.  The messages come    *)
(* from the requests, responses and notifications tables of the database   *)
(* (db), merged and sorted by the session loader.  The tables are written  *)
(* by the websocket endpoint (socket), the tracing layer writes the logs   *)
(* table (logs), and the session page (page) filters and renders a loaded  *)
(* Conversation.                                                           *)
(*                                                                         *)
(* Option<T> is modelled by the string "None" for the absent value and by  *)
(* the variant's name for Some(variant).  JSON payloads are modelled by    *)
(* the fields serde looks at when it deserializes CancelParams,            *)
(* ProgressParams and WorkDoneProgressParams.                              *)
(***************************************************************************)
EXTENDS Integers, Sequences, FiniteSets, TLC

VARIABLES value, conversation, pc, call, db, socket, logs, page

vars == <<value, conversation, pc, call, db, socket, logs, page>>

(***************************************************************************)
(* Bounds of the model.                                                    *)
(***************************************************************************)
MaxLen == 3

(***************************************************************************)
(* JSON values, as far as serde distinguishes them in the payloads.        *)
(***************************************************************************)
\* "number" is a JSON integer that fits an i32; "other" is any value that is
\* neither such a number, nor a string, nor null (a wider number included).
JAbsent == [j |-> "absent", n |-> 0, s |-> ""]
JNull == [j |-> "null", n |-> 0, s |-> ""]
JOther == [j |-> "other", n |-> 0, s |-> ""]
JNumber(n) == [j |-> "number", n |-> n, s |-> ""]
JString(s) == [j |-> "string", n |-> 0, s |-> s]

\* lsp_types::NumberOrString, with NoneNS for "no value".
NoneNS == [t |-> "None", n |-> 0, s |-> ""]
Number(n) == [t |-> "Number", n |-> n, s |-> ""]
String(s) == [t |-> "String", n |-> 0, s |-> s]

\* lsp_server::RequestId: an i32 or a string.
IdI32(n) == [t |-> "I32", n |-> n, s |-> ""]
IdString(s) == [t |-> "String", n |-> 0, s |-> s]

\* RequestId::from as it would be if a numeric id were first printed, the way
\* log_message stores ids as text.
RequestIdFrom_printed(ns) ==
    IF ns.t = "Number" THEN IdString(ToString(ns.n)) ELSE IdString(ns.s)

\* RequestId::from(i32) and RequestId::from(String), as applied to the two
\* variants of NumberOrString.
RequestIdFrom(ns) ==
    IF ns.t = "Number" THEN IdI32(ns.n) ELSE IdString(ns.s)

\* #[serde(untagged)] enum NumberOrString { Number(i32), String(String) }
ParseNumberOrString(jv) ==
    CASE jv.j = "number" -> Number(jv.n)
      [] jv.j = "string" -> String(jv.s)
      [] OTHER -> NoneNS

\* A params payload: the JSON shape and the fields the engine deserializes.
Params(shape, id, token, workDoneToken, val) ==
    [shape |-> shape, id |-> id, token |-> token,
     workDoneToken |-> workDoneToken, value |-> val]

EmptyParams == Params("object", JAbsent, JAbsent, JAbsent, "absent")

\* serde_json::from_value::<CancelParams>: { id: NumberOrString }
from_value_CancelParams(params) ==
    IF params.shape = "object" /\ ParseNumberOrString(params.id) # NoneNS
    THEN [ok |-> TRUE, id |-> ParseNumberOrString(params.id)]
    ELSE [ok |-> FALSE, id |-> NoneNS]

\* serde_json::from_value::<ProgressParams>:
\* { token: NumberOrString, value: ProgressParamsValue }
from_value_ProgressParams(params) ==
    IF /\ params.shape = "object"
       /\ ParseNumberOrString(params.token) # NoneNS
       /\ params.value = "workDone"
    THEN [ok |-> TRUE, token |-> ParseNumberOrString(params.token)]
    ELSE [ok |-> FALSE, token |-> NoneNS]

\* serde_json::from_value::<WorkDoneProgressParams>:
\* { work_done_token: Option<NumberOrString> }
from_value_WorkDoneProgressParams(params) ==
    CASE params.shape # "object" -> [ok |-> FALSE, work_done_token |-> NoneNS]
      [] params.workDoneToken.j \in {"absent", "null"} ->
            [ok |-> TRUE, work_done_token |-> NoneNS]
      [] ParseNumberOrString(params.workDoneToken) # NoneNS ->
            [ok |-> TRUE,
             work_done_token |-> ParseNumberOrString(params.workDoneToken)]
      [] OTHER -> [ok |-> FALSE, work_done_token |-> NoneNS]

(***************************************************************************)
(* Messages.                                                               *)
(***************************************************************************)
NoId == [t |-> "None", n |-> 0, s |-> ""]

Request(id, method, params) ==
    [kind |-> "Request", id |-> id, method |-> method, params |-> params]
Response(id) ==
    [kind |-> "Response", id |-> id, method |-> "", params |-> EmptyParams]
Notification(method, params) ==
    [kind |-> "Notification", id |-> NoId, method |-> method, params |-> params]

MessageWithTimeStamp(time_stamp, message) ==
    [time_stamp |-> time_stamp, message |-> message]

(***************************************************************************)
(* MessageSource and MessageKind.                                          *)
(***************************************************************************)
MessageSource == {"Client", "Server"}

MessageSource_other(self) ==
    CASE self = "Client" -> "Server"
      [] self = "Server" -> "Client"

\* The inversion applied to an unwrapped origin: an absent origin counts as
\* the server's.
MapOther_total(source) ==
    IF source = "Client" THEN "Server" ELSE "Client"

\* Option<MessageSource>::map(MessageSource::other)
MapOther(source) ==
    IF source = "None" THEN "None" ELSE MessageSource_other(source)

MessageKind_all ==
    <<"Lifecycle", "TextDocumentSynchronization",
      "NotebookDocumentSynchronization", "WorkspaceSynchronization",
      "Workspace", "Telemetry", "Declaration", "Definition",
      "TypeDefinition", "Implementation", "References", "CallHierarchy",
      "TypeHierarchy", "DocumentHighlight", "DocumentLink", "Hover",
      "CodeLens", "FoldingRange", "Selection", "Symbol", "SemanticTokens",
      "InlayHint", "InlineValue", "Moniker", "Completion", "Diagnostic",
      "SignatureHelp", "CodeAction", "DocumentColor", "Formatting",
      "Rename", "LinkedEditingRange", "ExecuteCommand">>

(***************************************************************************)
(* The static protocol tables.                                             *)
(***************************************************************************)
\* The methods for which Conversation::from looks for a work-done token.
ProgressCapable(method) ==
    method \in
      {"initialize", "textDocument/declaration", "textDocument/definition",
       "textDocument/typeDefinition", "textDocument/implementation",
       "textDocument/references", "textDocument/prepareCallHierarchy",
       "callHierarchy/incomingCalls", "callHierarchy/outgoingCalls",
       "textDocument/prepareTypeHierarchy", "typeHierarchy/supertypes",
       "typeHierarchy/subtypes", "textDocument/documentHighlight",
       "textDocument/documentLink", "textDocument/hover",
       "textDocument/codeLens", "textDocument/foldingRange",
       "textDocument/selectionRange", "textDocument/documentSymbol",
       "textDocument/semanticTokens/full",
       "textDocument/semanticTokens/full/delta",
       "textDocument/semanticTokens/range", "textDocument/inlayHint",
       "textDocument/inlineValue", "textDocument/moniker",
       "textDocument/completion", "textDocument/diagnostic",
       "workspace/diagnostic", "textDocument/signatureHelp",
       "textDocument/codeAction", "textDocument/documentColor",
       "textDocument/colorPresentation", "textDocument/formatting",
       "textDocument/rangeFormatting", "textDocument/rename",
       "textDocument/prepareRename", "textDocument/linkedEditingRange",
       "workspace/symbol", "workspace/executeCommand"}

get_request_source(request) ==
    CASE request.method = "initialize" -> "Client"
      [] request.method = "client/registerCapability" -> "Server"
      [] request.method = "client/unregisterCapability" -> "Server"
      [] request.method = "shutdown" -> "Client"
      [] request.method \in
           {"textDocument/declaration", "textDocument/definition",
            "textDocument/typeDefinition", "textDocument/implementation",
            "textDocument/references", "textDocument/prepareCallHierarchy",
            "callHierarchy/incomingCalls", "callHierarchy/outgoingCalls",
            "textDocument/prepareTypeHierarchy", "typeHierarchy/supertypes",
            "typeHierarchy/subtypes", "textDocument/documentHighlight",
            "textDocument/documentLink", "documentLink/resolve",
            "textDocument/hover", "textDocument/codeLens",
            "codeLens/resolve", "textDocument/foldingRange",
            "textDocument/selectionRange", "textDocument/documentSymbol",
            "textDocument/semanticTokens/full",
            "textDocument/semanticTokens/full/delta",
            "textDocument/semanticTokens/range", "textDocument/inlayHint",
            "inlayHint/resolve", "textDocument/inlineValue",
            "textDocument/moniker", "textDocument/completion",
            "completionItem/resolve", "textDocument/diagnostic",
            "workspace/diagnostic", "textDocument/signatureHelp",
            "textDocument/codeAction", "codeAction/resolve",
            "textDocument/documentColor", "textDocument/colorPresentation",
            "textDocument/formatting", "textDocument/rangeFormatting",
            "textDocument/onTypeFormatting", "textDocument/rename",
            "textDocument/prepareRename", "textDocument/linkedEditingRange",
            "workspace/symbol", "workspaceSymbol/resolve",
            "workspace/willCreateFiles", "workspace/willRenameFiles",
            "workspace/executeCommand"} -> "Client"
      [] request.method \in
           {"workspace/codeLens/refresh", "workspace/semanticTokens/refresh",
            "workspace/inlayHint/refresh", "workspace/inlineValue/refresh",
            "textDocument/publishDiagnostics", "workspace/diagnostic/refresh",
            "workspace/configuration", "workspace/workspaceFolders",
            "workspace/applyEdit"} -> "Server"
      [] request.method = "window/workDoneProgress/create" -> "Server"
      [] OTHER -> "None"

\* The category table with workspace/applyEdit filed in the arm above it
\* (only the arms of initialize, hover and that arm are kept).
classify_request_misfiled(request) ==
    CASE request.method = "initialize" -> "Lifecycle"
      [] request.method = "textDocument/hover" -> "Hover"
      [] request.method \in
           {"workspace/configuration", "workspace/workspaceFolders",
            "workspace/applyEdit"} -> "WorkspaceSynchronization"
      [] OTHER -> "None"

classify_request(request) ==
    CASE request.method \in
           {"initialize", "client/registerCapability",
            "client/unregisterCapability", "shutdown", "exit"} -> "Lifecycle"
      [] request.method = "textDocument/declaration" -> "Declaration"
      [] request.method = "textDocument/definition" -> "Definition"
      [] request.method = "textDocument/typeDefinition" -> "TypeDefinition"
      [] request.method = "textDocument/implementation" -> "Implementation"
      [] request.method = "textDocument/references" -> "References"
      [] request.method \in
           {"textDocument/prepareCallHierarchy", "callHierarchy/incomingCalls",
            "callHierarchy/outgoingCalls"} -> "CallHierarchy"
      [] request.method \in
           {"textDocument/prepareTypeHierarchy", "typeHierarchy/supertypes",
            "typeHierarchy/subtypes"} -> "TypeHierarchy"
      [] request.method = "textDocument/documentHighlight" ->
           "DocumentHighlight"
      [] request.method \in
           {"textDocument/documentLink", "documentLink/resolve"} ->
           "DocumentLink"
      [] request.method = "textDocument/hover" -> "Hover"
      [] request.method \in {"textDocument/codeLens", "codeLens/resolve"} ->
           "CodeLens"
      [] request.method = "textDocument/foldingRange" -> "FoldingRange"
      [] request.method = "textDocument/selectionRange" -> "Selection"
      [] request.method = "textDocument/documentSymbol" -> "Symbol"
      [] request.method \in
           {"textDocument/semanticTokens/full",
            "textDocument/semanticTokens/full/delta",
            "textDocument/semanticTokens/range"} -> "SemanticTokens"
      [] request.method \in {"textDocument/inlayHint", "inlayHint/resolve"} ->
           "InlayHint"
      [] request.method = "textDocument/inlineValue" -> "InlineValue"
      [] request.method = "textDocument/moniker" -> "Moniker"
      [] request.method \in
           {"textDocument/completion", "completionItem/resolve"} ->
           "Completion"
      [] request.method = "textDocument/diagnostic" -> "Diagnostic"
      [] request.method = "workspace/diagnostic" -> "Diagnostic"
      [] request.method = "textDocument/signatureHelp" -> "SignatureHelp"
      [] request.method \in
           {"textDocument/codeAction", "codeAction/resolve"} -> "CodeAction"
      [] request.method \in
           {"textDocument/documentColor", "textDocument/colorPresentation"} ->
           "DocumentColor"
      [] request.method \in
           {"textDocument/formatting", "textDocument/rangeFormatting",
            "textDocument/onTypeFormatting"} -> "Formatting"
      [] request.method \in
           {"textDocument/rename", "textDocument/prepareRename"} -> "Rename"
      [] request.method = "textDocument/linkedEditingRange" ->
           "LinkedEditingRange"
      [] request.method \in {"workspace/symbol", "workspaceSymbol/resolve"} ->
           "Symbol"
      [] request.method \in
           {"workspace/willCreateFiles", "workspace/willRenameFiles"} ->
           "WorkspaceSynchronization"
      [] request.method = "workspace/executeCommand" -> "ExecuteCommand"
      [] request.method = "workspace/codeLens/refresh" -> "CodeLens"
      [] request.method = "workspace/semanticTokens/refresh" ->
           "SemanticTokens"
      [] request.method = "workspace/inlayHint/refresh" -> "InlayHint"
      [] request.method = "workspace/inlineValue/refresh" -> "InlineValue"
      [] request.method = "textDocument/publishDiagnostics" -> "Diagnostic"
      [] request.method = "workspace/diagnostic/refresh" -> "Diagnostic"
      [] request.method \in
           {"workspace/configuration", "workspace/workspaceFolders"} ->
           "WorkspaceSynchronization"
      [] request.method = "workspace/applyEdit" -> "Workspace"
      [] request.method = "window/workDoneProgress/create" -> "Lifecycle"
      [] OTHER -> "None"

\* The arms of get_source for notifications other than cancel and progress.
get_notification_source(notification) ==
    CASE notification.method = "$/setTrace" -> "Client"
      [] notification.method = "$/logTrace" -> "Server"
      [] notification.method = "initialized" -> "Client"
      [] notification.method = "exit" -> "Client"
      [] notification.method \in
           {"textDocument/didOpen", "textDocument/didChange",
            "textDocument/willSave", "textDocument/willSaveWaitUntil",
            "textDocument/didSave", "textDocument/didClose"} -> "Client"
      [] notification.method \in
           {"notebookDocument/didOpen", "notebookDocument/didChange",
            "notebookDocument/didSave", "notebookDocument/didClose"} ->
           "Client"
      [] notification.method \in
           {"workspace/didChangeConfiguration",
            "workspace/didChangeWorkspaceFolders", "workspace/didCreateFiles",
            "workspace/didDeleteFiles", "workspace/didChangeWatchedFiles"} ->
           "Client"
      [] notification.method \in
           {"window/showMessage", "window/showMessageRequest",
            "window/showDocument", "window/logMessage",
            "window/workDoneProgress/cancel"} -> "Client"
      [] notification.method = "telemetry/event" -> "Server"
      [] OTHER -> "None"

\* The arms of classify for notifications other than cancel and progress.
classify_notification(notification) ==
    CASE notification.method \in
           {"$/setTrace", "$/logTrace", "initialized", "exit"} -> "Lifecycle"
      [] notification.method \in
           {"textDocument/didOpen", "textDocument/didChange",
            "textDocument/willSave", "textDocument/willSaveWaitUntil",
            "textDocument/didSave", "textDocument/didClose"} ->
           "TextDocumentSynchronization"
      [] notification.method \in
           {"notebookDocument/didOpen", "notebookDocument/didChange",
            "notebookDocument/didSave", "notebookDocument/didClose"} ->
           "NotebookDocumentSynchronization"
      [] notification.method \in
           {"workspace/didChangeConfiguration",
            "workspace/didChangeWorkspaceFolders", "workspace/didCreateFiles",
            "workspace/didDeleteFiles", "workspace/didChangeWatchedFiles"} ->
           "WorkspaceSynchronization"
      [] notification.method \in
           {"window/showMessage", "window/showMessageRequest",
            "window/showDocument", "window/logMessage",
            "window/workDoneProgress/cancel"} -> "Workspace"
      [] notification.method = "telemetry/event" -> "Telemetry"
      [] OTHER -> "None"

(***************************************************************************)
(* Conversation: the messages and the two correlation maps.                *)
(***************************************************************************)
\* HashMap::new()
EmptyMap == [k \in {} |-> Request(NoId, "", EmptyParams)]

\* An insert into a map that is created anew for every request.
Insert_only_last(map, key, request) ==
    [k \in {key} |-> request]

\* An insert that keeps the entry already present (entry().or_insert()).
Insert_keep_first(map, key, request) ==
    [k \in (DOMAIN map) \cup {key} |->
        IF k \in DOMAIN map THEN map[k] ELSE request]

\* HashMap::insert: a later insert under the same key replaces the entry.
Insert(map, key, request) ==
    [k \in (DOMAIN map) \cup {key} |-> IF k = key THEN request ELSE map[k]]

Conversation(messages, requests, progress_tokens) ==
    [messages |-> messages, requests |-> requests,
     progress_tokens |-> progress_tokens]

\* The requests entry made only once the params have parsed.
IndexRequest_parsed_only(requests, request) ==
    IF from_value_WorkDoneProgressParams(request.params).ok
    THEN [k \in (DOMAIN requests) \cup {request.id} |->
             IF k = request.id THEN request ELSE requests[k]]
    ELSE requests

\* The body of the loop of Conversation::from for a request: the entry of the
\* requests map.
IndexRequest(requests, request) ==
    Insert(requests, request.id, request)

\* The progress_tokens entry made for a request of any method.
IndexProgressToken_any_method(progress_tokens, request) ==
    LET params == from_value_WorkDoneProgressParams(request.params)
    IN  IF params.ok /\ params.work_done_token # NoneNS
        THEN [k \in (DOMAIN progress_tokens) \cup {params.work_done_token} |->
                 IF k = params.work_done_token THEN request
                 ELSE progress_tokens[k]]
        ELSE progress_tokens

\* The body of the loop of Conversation::from for a request: the entry of the
\* progress_tokens map, for the progress-capable methods only.
IndexProgressToken(progress_tokens, request) ==
    IF ProgressCapable(request.method)
    THEN LET params == from_value_WorkDoneProgressParams(request.params)
         IN  IF params.ok /\ params.work_done_token # NoneNS
             THEN Insert(progress_tokens, params.work_done_token, request)
             ELSE progress_tokens
    ELSE progress_tokens

\* The loop of Conversation::from over value[i..], from the maps built so far.
RECURSIVE IndexPass(_, _, _, _)
IndexPass(messages, i, requests, progress_tokens) ==
    IF i > Len(messages)
    THEN Conversation(messages, requests, progress_tokens)
    ELSE LET msg == messages[i].message
         IN  IF msg.kind = "Request"
             THEN IndexPass(messages, i + 1, IndexRequest(requests, msg),
                            IndexProgressToken(progress_tokens, msg))
             ELSE IndexPass(messages, i + 1, requests, progress_tokens)

\* A constructor that drops the requests a later request with the same id
\* replaces in the index.
ConversationFrom_deduplicated(messages) ==
    IndexPass(SelectSeq(messages,
                        LAMBDA m : m.message.kind = "Request" =>
                            IndexPass(messages, 1, EmptyMap, EmptyMap)
                                .requests[m.message.id] = m.message),
              1, EmptyMap, EmptyMap)

\* impl From<Vec<MessageWithTimeStamp>> for Conversation
ConversationFrom(messages) ==
    IndexPass(messages, 1, EmptyMap, EmptyMap)

(***************************************************************************)
(* get_source and classify.                                                *)
(***************************************************************************)
\* The Response arm with the lookup unwrapped: a missing request is a panic.
get_source_response_expect(response, containing_conversation) ==
    IF response.id \in DOMAIN containing_conversation.requests
    THEN MapOther(get_request_source(
                      containing_conversation.requests[response.id]))
    ELSE "Panic"

\* The Response arm without MessageSource::other.
get_source_response_uninverted(response, containing_conversation) ==
    IF response.id \in DOMAIN containing_conversation.requests
    THEN get_request_source(containing_conversation.requests[response.id])
    ELSE "None"

\* get_source, Message::Response arm
get_source_response(response, containing_conversation) ==
    IF response.id \in DOMAIN containing_conversation.requests
    THEN MapOther(get_request_source(
                      containing_conversation.requests[response.id]))
    ELSE "None"

\* The Cancel arm with MessageSource::other applied, as in the Progress arm.
get_source_cancel_inverted(notification, containing_conversation) ==
    LET cancel_params == from_value_CancelParams(notification.params)
        request_id == RequestIdFrom(cancel_params.id)
    IN  IF /\ cancel_params.ok
           /\ request_id \in DOMAIN containing_conversation.requests
        THEN MapOther(get_request_source(
                 containing_conversation.requests[request_id]))
        ELSE "None"

\* get_source, Cancel::METHOD arm
get_source_cancel(notification, containing_conversation) ==
    LET cancel_params == from_value_CancelParams(notification.params)
        request_id == RequestIdFrom(cancel_params.id)
    IN  IF /\ cancel_params.ok
           /\ request_id \in DOMAIN containing_conversation.requests
        THEN get_request_source(containing_conversation.requests[request_id])
        ELSE "None"

\* The Progress arm without MessageSource::other, as in the Cancel arm.
get_source_progress_uninverted(notification, containing_conversation) ==
    LET progress_params == from_value_ProgressParams(notification.params)
    IN  IF /\ progress_params.ok
           /\ progress_params.token
                \in DOMAIN containing_conversation.progress_tokens
        THEN get_request_source(
                 containing_conversation.progress_tokens[
                     progress_params.token])
        ELSE "None"

\* get_source, Progress::METHOD arm
get_source_progress(notification, containing_conversation) ==
    LET progress_params == from_value_ProgressParams(notification.params)
    IN  IF /\ progress_params.ok
           /\ progress_params.token
                \in DOMAIN containing_conversation.progress_tokens
        THEN MapOther(get_request_source(
                 containing_conversation.progress_tokens[
                     progress_params.token]))
        ELSE "None"

get_source(message, containing_conversation) ==
    CASE message.kind = "Request" -> get_request_source(message)
      [] message.kind = "Response" ->
           get_source_response(message, containing_conversation)
      [] message.kind = "Notification" /\ message.method = "$/cancelRequest" ->
           get_source_cancel(message, containing_conversation)
      [] message.kind = "Notification" /\ message.method = "$/progress" ->
           get_source_progress(message, containing_conversation)
      [] OTHER -> get_notification_source(message)

\* The Response arm classifying the response instead of the request it answers.
classify_response_unindexed(response, containing_conversation) ==
    classify_request(response)

\* classify, Message::Response arm
classify_response(response, containing_conversation) ==
    IF response.id \in DOMAIN containing_conversation.requests
    THEN classify_request(containing_conversation.requests[response.id])
    ELSE "None"

\* classify, Cancel::METHOD arm
classify_cancel(notification, containing_conversation) ==
    LET cancel_params == from_value_CancelParams(notification.params)
        request_id == RequestIdFrom(cancel_params.id)
    IN  IF /\ cancel_params.ok
           /\ request_id \in DOMAIN containing_conversation.requests
        THEN classify_request(containing_conversation.requests[request_id])
        ELSE "None"

\* The Progress arm missing: the notification falls to the static arms.
classify_progress_static(notification, containing_conversation) ==
    classify_notification(notification)

\* classify, Progress::METHOD arm
classify_progress(notification, containing_conversation) ==
    LET progress_params == from_value_ProgressParams(notification.params)
    IN  IF /\ progress_params.ok
           /\ progress_params.token
                \in DOMAIN containing_conversation.progress_tokens
        THEN classify_request(
                 containing_conversation.progress_tokens[
                     progress_params.token])
        ELSE "None"

classify(message, containing_conversation) ==
    CASE message.kind = "Request" -> classify_request(message)
      [] message.kind = "Response" ->
           classify_response(message, containing_conversation)
      [] message.kind = "Notification" /\ message.method = "$/cancelRequest" ->
           classify_cancel(message, containing_conversation)
      [] message.kind = "Notification" /\ message.method = "$/progress" ->
           classify_progress(message, containing_conversation)
      [] OTHER -> classify_notification(message)

(***************************************************************************)
(* The messages a session is drawn from.                                   *)
(***************************************************************************)
TokA == Params("object", JAbsent, JAbsent, JString("tok-A"), "absent")
BadToken == Params("object", JAbsent, JAbsent, JOther, "absent")

\* The requests of a session.  Ids: a number and the string that prints the
\* same.  Methods: hover and completion are progress-capable and declared by
\* the client, applyEdit is not progress-capable and declared by the server,
\* exit has a category but no declared origin.  Params: a work-done token,
\* no token, a token of the wrong type.
Requests ==
    {Request(IdI32(1), "textDocument/hover", TokA),
     Request(IdString("1"), "textDocument/completion", TokA),
     Request(IdI32(1), "workspace/applyEdit", TokA),
     Request(IdString("1"), "exit", EmptyParams),
     Request(IdI32(1), "textDocument/hover", BadToken),
     Request(IdString("1"), "textDocument/hover", EmptyParams)}

Responses == {Response(IdI32(1)), Response(IdString("1"))}

\* Cancel params: a numeric id, a string id, an id of the wrong type.
Cancels ==
    {Notification("$/cancelRequest", params) : params \in
        {Params("object", JNumber(1), JAbsent, JAbsent, "absent"),
         Params("object", JString("1"), JAbsent, JAbsent, "absent"),
         Params("object", JOther, JAbsent, JAbsent, "absent")}}

\* Progress params: a token with a work-done value, and without one.
Progresses ==
    {Notification("$/progress", params) : params \in
        {Params("object", JAbsent, JString("tok-A"), JAbsent, "workDone"),
         Params("object", JAbsent, JString("tok-A"), JAbsent, "absent")}}

Messages ==
    Requests \cup Responses \cup Cancels \cup Progresses
    \cup {Notification("textDocument/didOpen", EmptyParams)}

\* The time stamp of the i-th message of a loaded session: ascending, with
\* two messages to a clock tick.
StampOf(i) == (i + 1) \div 2

\* A loaded session: the messages f[1..n] with their time stamps.
Session(n, f) ==
    [i \in 1..n |-> MessageWithTimeStamp(StampOf(i), f[i])]

NoCall == [fn |-> "none", index |-> 0, result |-> "None"]

\* The rows of one session in the three tables, in the order the loader's
\* queries return them.
Db(requests, responses, notifications) ==
    [requests |-> requests, responses |-> responses,
     notifications |-> notifications]

EmptyDb == Db(<<>>, <<>>, <<>>)

\* No websocket connection, no tracing subscriber activity and no page
\* request: the values of socket, logs and page where these play no part.
NoSocket == [pc |-> "none"]
NoLogs == [pc |-> "none"]
NoPage == [pc |-> "none"]

(***************************************************************************)
(* The state machine: a session is loaded, indexed once, then queried.     *)
(***************************************************************************)
Init ==
    /\ \E n \in 0..MaxLen : \E f \in [1..n -> Messages] : value = Session(n, f)
    /\ conversation = Conversation(<<>>, EmptyMap, EmptyMap)
    /\ pc = "loaded"
    /\ call = NoCall
    /\ db = EmptyDb
    /\ socket = NoSocket
    /\ logs = NoLogs
    /\ page = NoPage

\* Conversation::from(value)
From ==
    /\ pc = "loaded"
    /\ conversation' = ConversationFrom(value)
    /\ pc' = "built"
    /\ UNCHANGED <<value, call, db, socket, logs, page>>

\* A classify that consumes the entry of the request it looked at.
Classify_consuming(i) ==
    /\ pc = "built"
    /\ call' = [fn |-> "classify", index |-> i,
                result |-> classify(conversation.messages[i].message,
                                    conversation)]
    /\ conversation' = [conversation EXCEPT !.requests = EmptyMap]
    /\ UNCHANGED <<value, pc, db, socket, logs, page>>

\* classify(&conversation.messages[i].message, &conversation)
Classify(i) ==
    /\ pc = "built"
    /\ call' = [fn |-> "classify", index |-> i,
                result |-> classify(conversation.messages[i].message,
                                    conversation)]
    /\ UNCHANGED <<value, conversation, pc, db, socket, logs, page>>

\* get_source(&conversation.messages[i].message, &conversation)
GetSource(i) ==
    /\ pc = "built"
    /\ call' = [fn |-> "get_source", index |-> i,
                result |-> get_source(conversation.messages[i].message,
                                      conversation)]
    /\ UNCHANGED <<value, conversation, pc, db, socket, logs, page>>

Next ==
    \/ From
    \/ \E i \in 1..Len(conversation.messages) : Classify(i)
    \/ \E i \in 1..Len(conversation.messages) : GetSource(i)

Spec == Init /\ [][Next]_vars

TypeOK ==
    /\ pc \in {"loaded", "built"}
    /\ call.fn \in {"none", "classify", "get_source"}

(***************************************************************************)
(* Vocabulary of the properties.                                           *)
(***************************************************************************)
\* The message the last call was made on.
Called == conversation.messages[call.index].message

Classified(kind) ==
    /\ call.fn = "classify"
    /\ Called.kind = kind

Sourced(kind) ==
    /\ call.fn = "get_source"
    /\ Called.kind = kind

IsCancel(message) ==
    message.kind = "Notification" /\ message.method = "$/cancelRequest"

IsProgress(message) ==
    message.kind = "Notification" /\ message.method = "$/progress"

\* The request id a cancel payload names on the wire, NoId when it names none.
WireCancelId(message) ==
    CASE message.params.shape = "object" /\ message.params.id.j = "number" ->
           IdI32(message.params.id.n)
      [] message.params.shape = "object" /\ message.params.id.j = "string" ->
           IdString(message.params.id.s)
      [] OTHER -> NoId

\* The token a well-formed progress payload names, NoneNS when the payload is
\* not a progress payload.
WireProgressToken(message) ==
    CASE /\ message.params.shape = "object"
         /\ message.params.value = "workDone"
         /\ message.params.token.j = "number" -> Number(message.params.token.n)
      [] /\ message.params.shape = "object"
         /\ message.params.value = "workDone"
         /\ message.params.token.j = "string" -> String(message.params.token.s)
      [] OTHER -> NoneNS

\* The work-done token a request's payload names, NoneNS when it names none.
WireWorkDoneToken(message) ==
    CASE /\ message.params.shape = "object"
         /\ message.params.workDoneToken.j = "number" ->
           Number(message.params.workDoneToken.n)
      [] /\ message.params.shape = "object"
         /\ message.params.workDoneToken.j = "string" ->
           String(message.params.workDoneToken.s)
      [] OTHER -> NoneNS

Opposite(source) ==
    CASE source = "Client" -> "Server"
      [] source = "Server" -> "Client"
      [] OTHER -> "None"

\* The positions of the requests in the input, and the last one under a key.
RequestPositions == {i \in 1..Len(value) : value[i].message.kind = "Request"}

Last(positions) == CHOOSE i \in positions : \A j \in positions : j <= i

(***************************************************************************)
(* C1: classify of a Response is the category of the request stored in     *)
(* conversation.requests under the response's id, and None when no request *)
(* is stored under that id; a response to a hover request is Hover.        *)
(***************************************************************************)
C1_ResponseCategory ==
    Classified("Response") =>
        /\ Called.id \in DOMAIN conversation.requests =>
              call.result = classify_request(conversation.requests[Called.id])
        /\ Called.id \notin DOMAIN conversation.requests =>
              call.result = "None"
        /\ /\ Called.id \in DOMAIN conversation.requests
           /\ conversation.requests[Called.id].method = "textDocument/hover"
           => call.result = "Hover"

C1_Witness ==
    /\ Classified("Response")
    /\ Called.id \in DOMAIN conversation.requests
    /\ conversation.requests[Called.id].method = "textDocument/hover"
    /\ call.result = "Hover"

(***************************************************************************)
(* C2: get_source of a Response whose id is in conversation.requests is    *)
(* the opposite peer of the owning request's origin: Server for a          *)
(* client-declared method, Client for a server-declared one, None when the *)
(* method has no declared origin.                                          *)
(***************************************************************************)
C2_ResponseOpposite ==
    /\ Sourced("Response")
    /\ Called.id \in DOMAIN conversation.requests
    => LET origin == get_request_source(conversation.requests[Called.id])
       IN  /\ origin = "Client" => call.result = "Server"
           /\ origin = "Server" => call.result = "Client"
           /\ origin = "None" => call.result = "None"

C2_Witness ==
    /\ Sourced("Response")
    /\ Called.id \in DOMAIN conversation.requests
    /\ get_request_source(conversation.requests[Called.id]) = "Server"
    /\ call.result = "Client"

(***************************************************************************)
(* C3: classify of a cancel notification whose params carry id X is the    *)
(* category of the request indexed under X, for a numeric X and for a      *)
(* string X.                                                               *)
(***************************************************************************)
C3_CancelCategory ==
    /\ Classified("Notification")
    /\ IsCancel(Called)
    /\ WireCancelId(Called) \in DOMAIN conversation.requests
    => call.result =
          classify(conversation.requests[WireCancelId(Called)], conversation)

C3_Witness ==
    /\ Classified("Notification")
    /\ IsCancel(Called)
    /\ Called.params.id.j = "string"
    /\ WireCancelId(Called) \in DOMAIN conversation.requests
    /\ call.result = "Completion"

(***************************************************************************)
(* C4: get_source of a cancel notification whose params id names an        *)
(* indexed request is the origin of that request, never its opposite.      *)
(***************************************************************************)
C4_CancelNotInverted ==
    /\ Sourced("Notification")
    /\ IsCancel(Called)
    /\ WireCancelId(Called) \in DOMAIN conversation.requests
    => LET origin ==
              get_source(conversation.requests[WireCancelId(Called)],
                         conversation)
       IN  /\ call.result = origin
           /\ origin # "None" => call.result # Opposite(origin)

C4_Witness ==
    /\ Sourced("Notification")
    /\ IsCancel(Called)
    /\ WireCancelId(Called) \in DOMAIN conversation.requests
    /\ conversation.requests[WireCancelId(Called)].method
          = "workspace/applyEdit"
    /\ call.result = "Server"

(***************************************************************************)
(* C5: classify of a progress notification whose params carry token T is   *)
(* the category of the request that conversation.progress_tokens holds     *)
(* under T.                                                                *)
(***************************************************************************)
C5_ProgressCategory ==
    /\ Classified("Notification")
    /\ IsProgress(Called)
    /\ WireProgressToken(Called) \in DOMAIN conversation.progress_tokens
    => call.result =
          classify(conversation.progress_tokens[WireProgressToken(Called)],
                   conversation)

C5_Witness ==
    /\ Classified("Notification")
    /\ IsProgress(Called)
    /\ WireProgressToken(Called) \in DOMAIN conversation.progress_tokens
    /\ conversation.progress_tokens[WireProgressToken(Called)].method
          = "textDocument/completion"
    /\ call.result = "Completion"

(***************************************************************************)
(* C6: get_source of a progress notification whose token is registered in  *)
(* progress_tokens is the opposite peer of the owning request's origin,    *)
(* the direction of a response to that request.                            *)
(***************************************************************************)
C6_ProgressInverted ==
    /\ Sourced("Notification")
    /\ IsProgress(Called)
    /\ WireProgressToken(Called) \in DOMAIN conversation.progress_tokens
    => LET owner ==
              conversation.progress_tokens[WireProgressToken(Called)]
       IN  /\ call.result = Opposite(get_source(owner, conversation))
           /\ call.result = get_source(Response(owner.id),
                                       Conversation(<<>>,
                                           Insert(EmptyMap, owner.id, owner),
                                           EmptyMap))

C6_Witness ==
    /\ Sourced("Notification")
    /\ IsProgress(Called)
    /\ WireProgressToken(Called) \in DOMAIN conversation.progress_tokens
    /\ call.result = "Server"

(***************************************************************************)
(* C7: dangling correlation gives the absence value and no fault: a        *)
(* Response whose id is not in requests, a cancel whose target id is not   *)
(* in requests and a progress notification whose token is not in           *)
(* progress_tokens get None from classify and from get_source.             *)
(***************************************************************************)
Dangling(message) ==
    \/ /\ message.kind = "Response"
       /\ message.id \notin DOMAIN conversation.requests
    \/ /\ IsCancel(message)
       /\ WireCancelId(message) # NoId
       /\ WireCancelId(message) \notin DOMAIN conversation.requests
    \/ /\ IsProgress(message)
       /\ WireProgressToken(message) # NoneNS
       /\ WireProgressToken(message)
             \notin DOMAIN conversation.progress_tokens

OptionValues ==
    {"None"} \cup MessageSource
    \cup {MessageKind_all[k] : k \in 1..Len(MessageKind_all)}

C7_DanglingIsNone ==
    call.fn \in {"classify", "get_source"} =>
        /\ call.result \in OptionValues
        /\ Dangling(Called) => call.result = "None"

C7_Witness ==
    /\ call.fn = "get_source"
    /\ IsCancel(Called)
    /\ Dangling(Called)
    /\ conversation.requests # EmptyMap
    /\ call.result = "None"

(***************************************************************************)
(* C8: an unparseable payload affects only its own message.  A cancel or   *)
(* progress notification whose params do not have the expected shape gets  *)
(* None from classify and get_source; a progress-capable request whose     *)
(* params do not parse, or carry no work-done token, is in requests and    *)
(* not in progress_tokens; and every other message gets the results it     *)
(* would get had the bad message carried well-formed, unmatched params.    *)
(***************************************************************************)
Unparseable(message) ==
    \/ IsCancel(message) /\ WireCancelId(message) = NoId
    \/ IsProgress(message) /\ WireProgressToken(message) = NoneNS

Tokenless(message) ==
    /\ message.kind = "Request"
    /\ ProgressCapable(message.method)
    /\ WireWorkDoneToken(message) = NoneNS

\* The message with well-formed params that match no request of a session.
WellFormedUnmatched(message) ==
    CASE IsCancel(message) ->
           [message EXCEPT !.params =
               Params("object", JNumber(99), JAbsent, JAbsent, "absent")]
      [] IsProgress(message) ->
           [message EXCEPT !.params =
               Params("object", JAbsent, JString("tok-Z"), JAbsent,
                      "workDone")]
      [] OTHER ->
           [message EXCEPT !.params =
               Params("object", JAbsent, JAbsent, JString("tok-Z"), "absent")]

\* The input with the message at position i made well-formed.
Repaired(i) ==
    [value EXCEPT ![i].message = WellFormedUnmatched(value[i].message)]

SameResultsElsewhere(i) ==
    LET repaired == ConversationFrom(Repaired(i))
    IN  \A j \in (1..Len(value)) \ {i} :
           /\ classify(value[j].message, conversation)
                = classify(Repaired(i)[j].message, repaired)
           /\ get_source(value[j].message, conversation)
                = get_source(Repaired(i)[j].message, repaired)

C8_BadPayloadIsLocal ==
    /\ /\ call.fn \in {"classify", "get_source"}
       /\ Unparseable(Called)
       => call.result = "None"
    /\ pc = "built" =>
          \A i \in 1..Len(value) :
             /\ Tokenless(value[i].message) =>
                   /\ value[i].message.id \in DOMAIN conversation.requests
                   /\ i = Last({j \in RequestPositions :
                                  value[j].message.id = value[i].message.id})
                      => conversation.requests[value[i].message.id]
                            = value[i].message
                   /\ \A t \in DOMAIN conversation.progress_tokens :
                         conversation.progress_tokens[t] # value[i].message
             /\ Unparseable(value[i].message) \/ Tokenless(value[i].message)
                   => SameResultsElsewhere(i)

C8_Witness ==
    /\ call.fn = "classify"
    /\ IsProgress(Called)
    /\ call.result = "Hover"
    /\ \E i \in 1..Len(value) :
          /\ Tokenless(value[i].message)
          /\ value[i].message.params.workDoneToken.j = "other"
          /\ conversation.requests[value[i].message.id] = value[i].message

(***************************************************************************)
(* C9: after Conversation::from the requests map has an entry for id i     *)
(* exactly when a Request of the input has id i, the entry is the last     *)
(* such Request in input order, and Responses and Notifications add,       *)
(* change or remove no entry.                                              *)
(***************************************************************************)
RequestsOnly == SelectSeq(value, LAMBDA m : m.message.kind = "Request")

C9_RequestsLastWins ==
    pc = "built" =>
        /\ DOMAIN conversation.requests
             = {value[i].message.id : i \in RequestPositions}
        /\ \A id \in DOMAIN conversation.requests :
              conversation.requests[id]
                = value[Last({i \in RequestPositions :
                                 value[i].message.id = id})].message
        /\ conversation.requests = ConversationFrom(RequestsOnly).requests

C9_Witness ==
    /\ pc = "built"
    /\ \E i, j \in RequestPositions :
          /\ i < j
          /\ value[i].message.id = value[j].message.id
          /\ value[i].message.method # value[j].message.method
          /\ conversation.requests[value[i].message.id] = value[j].message
    /\ \E k \in 1..Len(value) : value[k].message.kind = "Response"

(***************************************************************************)
(* C10: after Conversation::from progress_tokens has an entry for token T  *)
(* exactly when a Request of the input has a progress-capable method and   *)
(* params that parse with work-done token T, the entry is the last such    *)
(* request in input order, and a request with another method is never an   *)
(* entry even when its params carry a token.                               *)
(***************************************************************************)
Registering(token) ==
    {i \in RequestPositions :
        /\ ProgressCapable(value[i].message.method)
        /\ WireWorkDoneToken(value[i].message) = token}

Tokens ==
    {WireWorkDoneToken(value[i].message) : i \in RequestPositions} \ {NoneNS}

C10_ProgressTokensLastWins ==
    pc = "built" =>
        /\ DOMAIN conversation.progress_tokens
             = {token \in Tokens : Registering(token) # {}}
        /\ \A token \in DOMAIN conversation.progress_tokens :
              conversation.progress_tokens[token]
                = value[Last(Registering(token))].message
        /\ \A token \in DOMAIN conversation.progress_tokens :
              ProgressCapable(conversation.progress_tokens[token].method)

C10_Witness ==
    /\ pc = "built"
    /\ \E i, j, k \in RequestPositions :
          /\ i < j
          /\ j < k
          /\ Registering(String("tok-A")) = {i, j}
          /\ value[i].message # value[j].message
          /\ value[k].message.method = "workspace/applyEdit"
          /\ WireWorkDoneToken(value[k].message) = String("tok-A")
          /\ conversation.progress_tokens[String("tok-A")] = value[j].message

(***************************************************************************)
(* C11: for messages with identical time stamps the classify and           *)
(* get_source result of every message is the same whatever their relative  *)
(* order in the sequence handed to Conversation::from, provided no two     *)
(* requests share an id and no two progress-capable requests carry the     *)
(* same work-done token.  (With the proviso on ids alone the statement     *)
(* fails: C11_TieOrderUniqueIds.)                                          *)
(***************************************************************************)
\* The pairs of positions whose messages bear the same time stamp.
Ties ==
    {p \in (1..Len(value)) \X (1..Len(value)) :
        p[1] < p[2] /\ value[p[1]].time_stamp = value[p[2]].time_stamp}

\* The input with the messages at positions i and j exchanged.
Swapped(i, j) ==
    [k \in 1..Len(value) |->
        IF k = i THEN value[j] ELSE IF k = j THEN value[i] ELSE value[k]]

NoDuplicateIds ==
    \A i, j \in RequestPositions :
        value[i].message.id = value[j].message.id => i = j

NoDuplicateTokens ==
    \A token \in Tokens : Cardinality(Registering(token)) <= 1

TieOrderIrrelevant ==
    \A p \in Ties :
        LET other == ConversationFrom(Swapped(p[1], p[2]))
        IN  \A k \in 1..Len(value) :
               /\ classify(value[k].message, conversation)
                    = classify(value[k].message, other)
               /\ get_source(value[k].message, conversation)
                    = get_source(value[k].message, other)

\* The statement with the proviso on request ids alone.
C11_TieOrderUniqueIds ==
    pc = "built" /\ NoDuplicateIds => TieOrderIrrelevant

C11_TieOrderUniqueIdsAndTokens ==
    pc = "built" /\ NoDuplicateIds /\ NoDuplicateTokens => TieOrderIrrelevant

C11_Witness ==
    /\ pc = "built"
    /\ NoDuplicateIds
    /\ NoDuplicateTokens
    /\ Len(value) = 3
    /\ \E p \in Ties :
          /\ value[p[1]].message.kind = "Response"
          /\ value[p[2]].message.kind = "Request"
          /\ value[p[1]].message.id = value[p[2]].message.id
    /\ value[3].message.kind = "Request"
    /\ classify(value[1].message, conversation) = "Hover"

(***************************************************************************)
(* The static tables, method by method: a session of one request and one   *)
(* message after it, which is a notification of the same method, the       *)
(* request's response, its cancellation or its progress report.            *)
(***************************************************************************)
\* Every method name that occurs in get_request_source, classify_request or
\* the static notification arms of get_source and classify.
StaticMethods ==
    {"$/logTrace", "$/setTrace", "callHierarchy/incomingCalls",
     "callHierarchy/outgoingCalls", "client/registerCapability",
     "client/unregisterCapability", "codeAction/resolve", "codeLens/resolve",
     "completionItem/resolve", "documentLink/resolve", "exit", "initialize",
     "initialized", "inlayHint/resolve", "notebookDocument/didChange",
     "notebookDocument/didClose", "notebookDocument/didOpen",
     "notebookDocument/didSave", "shutdown", "telemetry/event",
     "textDocument/codeAction", "textDocument/codeLens",
     "textDocument/colorPresentation", "textDocument/completion",
     "textDocument/declaration", "textDocument/definition",
     "textDocument/diagnostic", "textDocument/didChange",
     "textDocument/didClose", "textDocument/didOpen", "textDocument/didSave",
     "textDocument/documentColor", "textDocument/documentHighlight",
     "textDocument/documentLink", "textDocument/documentSymbol",
     "textDocument/foldingRange", "textDocument/formatting",
     "textDocument/hover", "textDocument/implementation",
     "textDocument/inlayHint", "textDocument/inlineValue",
     "textDocument/linkedEditingRange", "textDocument/moniker",
     "textDocument/onTypeFormatting", "textDocument/prepareCallHierarchy",
     "textDocument/prepareRename", "textDocument/prepareTypeHierarchy",
     "textDocument/publishDiagnostics", "textDocument/rangeFormatting",
     "textDocument/references", "textDocument/rename",
     "textDocument/selectionRange", "textDocument/semanticTokens/full",
     "textDocument/semanticTokens/full/delta",
     "textDocument/semanticTokens/range", "textDocument/signatureHelp",
     "textDocument/typeDefinition", "textDocument/willSave",
     "textDocument/willSaveWaitUntil", "typeHierarchy/subtypes",
     "typeHierarchy/supertypes", "window/logMessage", "window/showDocument",
     "window/showMessage", "window/showMessageRequest",
     "window/workDoneProgress/cancel", "window/workDoneProgress/create",
     "workspace/applyEdit", "workspace/codeLens/refresh",
     "workspace/configuration", "workspace/diagnostic",
     "workspace/diagnostic/refresh", "workspace/didChangeConfiguration",
     "workspace/didChangeWatchedFiles",
     "workspace/didChangeWorkspaceFolders", "workspace/didCreateFiles",
     "workspace/didDeleteFiles", "workspace/executeCommand",
     "workspace/inlayHint/refresh", "workspace/inlineValue/refresh",
     "workspace/semanticTokens/refresh", "workspace/symbol",
     "workspace/willCreateFiles", "workspace/willRenameFiles",
     "workspace/workspaceFolders", "workspaceSymbol/resolve"}

UnknownMethods == {"custom/unknown", "textDocument/unknown"}

TableMethods == StaticMethods \cup UnknownMethods

Followers(method) ==
    {Notification(method, EmptyParams),
     Response(IdI32(1)),
     Notification("$/cancelRequest",
                  Params("object", JNumber(1), JAbsent, JAbsent, "absent")),
     Notification("$/progress",
                  Params("object", JAbsent, JString("tok-A"), JAbsent,
                         "workDone"))}

InitTables ==
    /\ \E method \in TableMethods : \E follower \in Followers(method) :
          value = Session(2, <<Request(IdI32(1), method, TokA), follower>>)
    /\ conversation = Conversation(<<>>, EmptyMap, EmptyMap)
    /\ pc = "loaded"
    /\ call = NoCall
    /\ db = EmptyDb
    /\ socket = NoSocket
    /\ logs = NoLogs
    /\ page = NoPage

SpecTables == InitTables /\ [][Next]_vars

\* A notification that classify and get_source resolve from the static arms.
IsStatic(message) ==
    /\ message.kind = "Notification"
    /\ ~IsCancel(message)
    /\ ~IsProgress(message)

NoConversation == Conversation(<<>>, EmptyMap, EmptyMap)

(***************************************************************************)
(* C12: a notification whose method is neither cancel nor progress gets    *)
(* the category that a request with the same method name gets.             *)
(***************************************************************************)
C12_NotificationCategoryOfMethod ==
    call.fn = "classify" /\ IsStatic(Called) =>
        call.result
          = classify(Request(IdI32(1), Called.method, EmptyParams),
                     conversation)

(***************************************************************************)
(* C13: the origin of a request, and of a notification whose method is     *)
(* neither cancel nor progress, depends on the method name only: a request *)
(* and a notification with the same method name get the same origin, in    *)
(* any Conversation.                                                       *)
(***************************************************************************)
C13_OriginOfMethod ==
    /\ call.fn = "get_source"
    /\ Called.kind = "Request" \/ IsStatic(Called)
    => /\ call.result
            = get_source(Request(IdI32(1), Called.method, EmptyParams),
                         NoConversation)
       /\ call.result
            = get_source(Notification(Called.method, EmptyParams),
                         NoConversation)

(***************************************************************************)
(* C14: the category table and the origin table are consistent: a method   *)
(* has a category exactly when it has a declared origin, for requests and  *)
(* for the static notification arms.                                       *)
(***************************************************************************)
C14_TablesConsistent ==
    /\ call.fn = "classify"
    /\ Called.kind = "Request" \/ IsStatic(Called)
    => (call.result = "None" <=> get_source(Called, conversation) = "None")

(***************************************************************************)
(* C15: a request with method initialize has category Lifecycle and origin *)
(* Client, textDocument/hover has Hover and Client, workspace/applyEdit    *)
(* has Workspace and Server.                                               *)
(***************************************************************************)
Specified ==
    {<<"initialize", "Lifecycle", "Client">>,
     <<"textDocument/hover", "Hover", "Client">>,
     <<"workspace/applyEdit", "Workspace", "Server">>}

C15_SpecifiedValues ==
    /\ call.fn \in {"classify", "get_source"}
    /\ Called.kind = "Request"
    => \A row \in Specified :
          Called.method = row[1] =>
             /\ call.fn = "classify" => call.result = row[2]
             /\ call.fn = "get_source" => call.result = row[3]

C15_Witness ==
    /\ Classified("Request")
    /\ Called.method = "workspace/applyEdit"
    /\ call.result = "Workspace"

(***************************************************************************)
(* C16: a request or notification whose method is in neither static table  *)
(* gets None from classify and get_source, and so does a response, cancel  *)
(* or progress message that correlates to a request with such a method.    *)
(***************************************************************************)
\* The request a response, cancel or progress message correlates to.
Owner(message) ==
    CASE /\ message.kind = "Response"
         /\ message.id \in DOMAIN conversation.requests ->
           conversation.requests[message.id]
      [] /\ IsCancel(message)
         /\ WireCancelId(message) \in DOMAIN conversation.requests ->
           conversation.requests[WireCancelId(message)]
      [] /\ IsProgress(message)
         /\ \E i \in RequestPositions :
               /\ WireWorkDoneToken(value[i].message) # NoneNS
               /\ WireWorkDoneToken(value[i].message)
                    = WireProgressToken(message) ->
           value[Last({i \in RequestPositions :
                          WireWorkDoneToken(value[i].message)
                            = WireProgressToken(message)})].message
      [] OTHER -> message

C16_UnknownMethodIsNone ==
    call.fn \in {"classify", "get_source"} =>
        /\ (Called.kind = "Request" \/ IsStatic(Called))
           /\ Called.method \notin StaticMethods
              => call.result = "None"
        /\ Owner(Called).kind = "Request"
           /\ Owner(Called).method \notin StaticMethods
              => call.result = "None"

C16_Witness ==
    /\ Sourced("Response")
    /\ Owner(Called).kind = "Request"
    /\ Owner(Called).method = "custom/unknown"
    /\ call.result = "None"

(***************************************************************************)
(* The Conversation as a type: besides the read accessors it implements    *)
(* IntoIterator for &mut Conversation, which hands out mutable references  *)
(* to the stored messages.  No function of the crate calls it; the         *)
(* specification below is the state machine of the type with that          *)
(* operation available, over short sessions.                               *)
(***************************************************************************)
MaxMutLen == 2

MutMessages ==
    {Request(IdI32(1), "textDocument/hover", TokA),
     Request(IdString("1"), "textDocument/completion", TokA),
     Response(IdI32(1)),
     Notification("$/progress",
                  Params("object", JAbsent, JString("tok-A"), JAbsent,
                         "workDone"))}

InitMut ==
    /\ \E n \in 0..MaxMutLen :
          \E f \in [1..n -> MutMessages] : value = Session(n, f)
    /\ conversation = Conversation(<<>>, EmptyMap, EmptyMap)
    /\ pc = "loaded"
    /\ call = NoCall
    /\ db = EmptyDb
    /\ socket = NoSocket
    /\ logs = NoLogs
    /\ page = NoPage

\* for m in &mut conversation { ... }: the i-th stored message is assigned
\* through the mutable reference; requests and progress_tokens are not
\* touched.
IterMut(i, message) ==
    /\ pc = "built"
    /\ conversation' = [conversation EXCEPT !.messages[i].message = message]
    /\ UNCHANGED <<value, pc, call, db, socket, logs, page>>

NextMut ==
    \/ From
    \/ \E i \in 1..Len(conversation.messages) : Classify(i)
    \/ \E i \in 1..Len(conversation.messages) : GetSource(i)
    \/ \E i \in 1..Len(conversation.messages) :
          \E message \in MutMessages : IterMut(i, message)

SpecMut == InitMut /\ [][NextMut]_vars

(***************************************************************************)
(* C17: a built Conversation is read-only: in every reachable state        *)
(* messages is the sequence it was built from, and requests and            *)
(* progress_tokens are the index Conversation::from derives from the       *)
(* current messages.                                                       *)
(***************************************************************************)
C17_ReadOnlyAfterConstruction ==
    pc = "built" =>
        /\ conversation.messages = value
        /\ conversation.requests
             = ConversationFrom(conversation.messages).requests
        /\ conversation.progress_tokens
             = ConversationFrom(conversation.messages).progress_tokens

(***************************************************************************)
(* C18: classify and get_source are pure: however many calls were made and *)
(* in whatever order, the Conversation is still the one Conversation::from *)
(* built, and the result of the last call is the function's value on that  *)
(* message and that Conversation, so a repeated call returns the same.     *)
(***************************************************************************)
C18_PureQueries ==
    pc = "built" =>
        /\ conversation = ConversationFrom(value)
        /\ call.fn = "classify" =>
              call.result = classify(value[call.index].message,
                                     ConversationFrom(value))
        /\ call.fn = "get_source" =>
              call.result = get_source(value[call.index].message,
                                       ConversationFrom(value))

C18_Witness ==
    /\ Sourced("Response")
    /\ call.result = "Client"
    /\ \E i \in 1..Len(value) : IsProgress(value[i].message)
    /\ conversation = ConversationFrom(value)

(***************************************************************************)
(* C19: Conversation::from neither re-sorts nor deduplicates: messages of  *)
(* the built Conversation is the input sequence, element for element,      *)
(* duplicate ids and uncorrelated messages included.                       *)
(***************************************************************************)
C19_MessagesAreTheInput ==
    pc = "built" => conversation.messages = value

C19_Witness ==
    /\ pc = "built"
    /\ \E i, j \in RequestPositions :
          /\ i < j
          /\ value[i].message.id = value[j].message.id
          /\ value[i].message # value[j].message
    /\ \E i \in 1..Len(value) :
          /\ value[i].message.kind = "Response"
          /\ value[i].message.id \notin DOMAIN conversation.requests
    /\ conversation.messages = value

(***************************************************************************)
(* The loader: get_all_messages_for_session_in_chronological_order reads   *)
(* the session's rows from the three tables, turns every row into a        *)
(* message, sorts by time stamp and builds the Conversation.               *)
(***************************************************************************)
\* The rows of a session number at most MaxRows over the three tables, with
\* time stamps in 1..MaxStamp.
MaxRows == 3
MaxStamp == 2

RowIds == 1..MaxRows
Stamps == 1..MaxStamp

\* A row of requests: id is the table's key, request_id the id of the message
\* as text.
RequestRecords ==
    [id : RowIds, request_id : {"1"},
     method : {"textDocument/hover", "workspace/applyEdit"},
     params : {TokA}, time_stamp : Stamps]

\* A row of responses: error_code is nullable.
ResponseRecords ==
    {[id |-> id, is_error |-> outcome[1], error_code |-> outcome[2],
      time_stamp |-> time_stamp] :
        id \in RowIds, time_stamp \in Stamps,
        outcome \in {<<FALSE, "None">>, <<TRUE, "Some">>, <<TRUE, "None">>}}

NotificationRecords ==
    [method : {"textDocument/didOpen"}, params : {EmptyParams},
     time_stamp : Stamps]

\* ORDER BY time_stamp ASC: the order of rows with equal time stamps is the
\* database's choice.
OrderedByTimeStamp(rows) ==
    \A i, j \in 1..Len(rows) :
        i < j => rows[i].time_stamp <= rows[j].time_stamp

\* id is the key of its table.
UniqueIds(rows) ==
    \A i, j \in 1..Len(rows) : rows[i].id = rows[j].id => i = j

InitLoad ==
    /\ \E a \in 0..MaxRows : \E requests \in [1..a -> RequestRecords] :
          /\ OrderedByTimeStamp(requests)
          /\ UniqueIds(requests)
          /\ \E b \in 0..(MaxRows - a) :
                \E responses \in [1..b -> ResponseRecords] :
                   /\ OrderedByTimeStamp(responses)
                   /\ UniqueIds(responses)
                   /\ \E c \in 0..(MaxRows - a - b) :
                         \E notifications \in [1..c -> NotificationRecords] :
                            /\ OrderedByTimeStamp(notifications)
                            /\ db = Db(requests, responses, notifications)
    /\ value = <<>>
    /\ conversation = Conversation(<<>>, EmptyMap, EmptyMap)
    /\ pc = "stored"
    /\ call = NoCall
    /\ socket = NoSocket
    /\ logs = NoLogs
    /\ page = NoPage

\* requests_ref.iter().find(|request| request.id == response_record.id): the
\* Option as a sequence of at most one row.
find_request(requests, response_record) ==
    LET hits == {i \in 1..Len(requests) : requests[i].id = response_record.id}
    IN  IF hits = {} THEN <<>>
        ELSE <<requests[CHOOSE i \in hits : \A j \in hits : i <= j]>>

\* The two expect() calls of the map over the responses.
LoadPanics(rows) ==
    \E i \in 1..Len(rows.responses) :
        \/ find_request(rows.requests, rows.responses[i]) = <<>>
        \/ /\ rows.responses[i].is_error
           /\ rows.responses[i].error_code = "None"

\* The message of a row of responses: its id is the request_id of the request
\* row found for it.
ResponseMessage(requests, response_record) ==
    MessageWithTimeStamp(
        response_record.time_stamp,
        Response(RequestIdFrom(
            String(find_request(requests, response_record)[1].request_id))))

RequestMessage(request_record) ==
    MessageWithTimeStamp(
        request_record.time_stamp,
        Request(RequestIdFrom(String(request_record.request_id)),
                request_record.method, request_record.params))

NotificationMessage(notification) ==
    MessageWithTimeStamp(
        notification.time_stamp,
        Notification(notification.method, notification.params))

\* all_messages before the sort: the responses, then the requests, then the
\* notifications.
all_messages(rows) ==
    [i \in 1..Len(rows.responses) |->
        ResponseMessage(rows.requests, rows.responses[i])]
    \o [i \in 1..Len(rows.requests) |-> RequestMessage(rows.requests[i])]
    \o [i \in 1..Len(rows.notifications) |->
          NotificationMessage(rows.notifications[i])]

\* One step of the stable sort: message goes behind every message whose time
\* stamp is not greater.
InsertByTimeStamp(sorted, message) ==
    LET k == Cardinality({i \in 1..Len(sorted) :
                             sorted[i].time_stamp <= message.time_stamp})
    IN  SubSeq(sorted, 1, k) \o <<message>> \o SubSeq(sorted, k + 1, Len(sorted))

\* The loader without its sort.
sort_by_time_stamp_skipped(messages) == messages

\* all_messages.sort_by(|m1, m2| m1.time_stamp.cmp(&m2.time_stamp)): stable.
RECURSIVE sort_by_time_stamp(_)
sort_by_time_stamp(messages) ==
    IF Len(messages) = 0 THEN <<>>
    ELSE InsertByTimeStamp(
             sort_by_time_stamp(SubSeq(messages, 1, Len(messages) - 1)),
             messages[Len(messages)])

\* The loader returns Ok(all_messages.into()).
Load ==
    /\ pc = "stored"
    /\ ~LoadPanics(db)
    /\ value' = sort_by_time_stamp(all_messages(db))
    /\ conversation' = ConversationFrom(value')
    /\ pc' = "built"
    /\ UNCHANGED <<call, db, socket, logs, page>>

\* The loader panics in one of its expect() calls: nothing is returned.
LoadPanic ==
    /\ pc = "stored"
    /\ LoadPanics(db)
    /\ pc' = "panicked"
    /\ UNCHANGED <<value, conversation, call, db, socket, logs, page>>

\* One of the three queries fails: the loader returns the sqlx::Error.
LoadError ==
    /\ pc = "stored"
    /\ pc' = "error"
    /\ UNCHANGED <<value, conversation, call, db, socket, logs, page>>

NextLoad ==
    \/ Load
    \/ LoadPanic
    \/ LoadError

SpecLoad == InitLoad /\ [][NextLoad]_vars

(***************************************************************************)
(* C20: the Conversation the loader returns holds exactly one message per  *)
(* request, response and notification row of the session, none dropped and *)
(* none duplicated, in ascending time stamp order across the three kinds.  *)
(***************************************************************************)
\* The messages of one kind, in the order they have in the Conversation.
OfKind(kind) ==
    SelectSeq(conversation.messages, LAMBDA m : m.message.kind = kind)

C20_LoaderCompleteAndChronological ==
    pc = "built" =>
        /\ Len(conversation.messages)
             = Len(db.requests) + Len(db.responses) + Len(db.notifications)
        /\ Len(OfKind("Request")) = Len(db.requests)
        /\ \A i \in 1..Len(db.requests) :
              /\ OfKind("Request")[i].time_stamp = db.requests[i].time_stamp
              /\ OfKind("Request")[i].message.method = db.requests[i].method
              /\ OfKind("Request")[i].message.id
                   = IdString(db.requests[i].request_id)
        /\ Len(OfKind("Response")) = Len(db.responses)
        /\ \A i \in 1..Len(db.responses) :
              /\ OfKind("Response")[i].time_stamp = db.responses[i].time_stamp
              /\ \E j \in 1..Len(db.requests) :
                    /\ db.requests[j].id = db.responses[i].id
                    /\ OfKind("Response")[i].message.id
                         = IdString(db.requests[j].request_id)
        /\ Len(OfKind("Notification")) = Len(db.notifications)
        /\ \A i \in 1..Len(db.notifications) :
              /\ OfKind("Notification")[i].time_stamp
                   = db.notifications[i].time_stamp
              /\ OfKind("Notification")[i].message.method
                   = db.notifications[i].method
        /\ \A i, j \in 1..Len(conversation.messages) :
              i < j => conversation.messages[i].time_stamp
                         <= conversation.messages[j].time_stamp

C20_Witness ==
    /\ pc = "built"
    /\ Len(db.requests) > 0
    /\ Len(db.responses) > 0
    /\ Len(db.notifications) > 0
    /\ conversation.messages[1].message.kind = "Request"
    /\ conversation.messages[Len(conversation.messages)].message.kind
         = "Response"

(***************************************************************************)
(* The ingest endpoint: handle_ws_upgrade reads the frames of one          *)
(* websocket connection and log_message writes one row per message.        *)
(***************************************************************************)
\* A connection delivers at most MaxFrames frames.
MaxFrames == 3

\* The outcome of LspMessage::read on the bytes of a frame: Err, Ok(None) or
\* Ok(Some(message)).  result and error are the two optional fields of a
\* lsp_server::Response, "Some" or "None".
Read(ok, message, result, error) ==
    [ok |-> ok, message |-> message, result |-> result, error |-> error]

ReadErr == Read("Err", Notification("", EmptyParams), "None", "None")
ReadNone == Read("None", Notification("", EmptyParams), "None", "None")
ReadSome(message) == Read("Some", message, "None", "None")

\* axum's ws::Message, and the Err of socket.recv().
Frame(type, read) == [type |-> type, read |-> read]

CancelOf(id) ==
    Notification("$/cancelRequest",
                 Params("object", id, JAbsent, JAbsent, "absent"))

\* The messages a language client or server sends on the wire: two requests,
\* a response with an error, one with a result and one with neither, and a
\* cancel notification for each of the request ids.
TextMessages ==
    {ReadSome(Request(IdString("1"), "workspace/applyEdit", EmptyParams)),
     Read("Some", Response(IdI32(1)), "None", "Some"),
     Read("Some", Response(IdString("1")), "Some", "None"),
     Read("Some", Response(IdI32(1)), "None", "None"),
     ReadSome(CancelOf(JNumber(1))),
     ReadSome(CancelOf(JString("1")))}

BinaryMessages ==
    {ReadSome(Request(IdI32(1), "textDocument/hover", TokA))}

Frames ==
    {Frame("Text", read) : read \in TextMessages \cup {ReadErr, ReadNone}}
    \cup {Frame("Binary", read) : read \in BinaryMessages}
    \cup {Frame("Ping", ReadNone), Frame("Pong", ReadNone),
          Frame("Close", ReadNone), Frame("Error", ReadNone)}

\* The ids the sessions table hands out, and the session_id of a handler
\* that has none (yet).
SessionIds == {1}
NoSession == 0

\* impl Display for RequestId, as format!("{}", req.id) uses it: a number is
\* printed in decimal, a string is printed quoted.
Display(id) ==
    IF id.t = "I32" THEN ToString(id.n) ELSE "\"" \o id.s \o "\""

\* The state of handle_ws_upgrade: the frames the peer sends and the index of
\* the next one, the handler's position (pc), its locals session_id, now and
\* msg, the frames it sent, and the calls of log_message made so far with
\* the status each returned.
Socket(frames, next, at, session_id, now, msg, sent, logged) ==
    [frames |-> frames, next |-> next, pc |-> at, session_id |-> session_id,
     now |-> now, msg |-> msg, sent |-> sent, logged |-> logged]

InitIngest ==
    /\ \E n \in 0..MaxFrames : \E frames \in [1..n -> Frames] :
          socket = Socket(frames, 1, "upgrading", NoSession, 0, ReadNone,
                          <<>>, <<>>)
    /\ db = EmptyDb
    /\ value = <<>>
    /\ conversation = Conversation(<<>>, EmptyMap, EmptyMap)
    /\ pc = "stored"
    /\ call = NoCall
    /\ logs = NoLogs
    /\ page = NoPage

\* INSERT INTO sessions DEFAULT VALUES RETURNING id succeeds.
Upgrade ==
    /\ socket.pc = "upgrading"
    /\ \E session_id \in SessionIds :
          socket' = [socket EXCEPT !.session_id = session_id,
                                   !.pc = "reading"]
    /\ UNCHANGED <<value, conversation, pc, call, db, logs, page>>

\* A handler that sends Close and enters the loop all the same.
UpgradeFails_reads_on ==
    /\ socket.pc = "upgrading"
    /\ socket' = [socket EXCEPT !.sent = Append(@, Frame("Close", ReadNone)),
                                !.pc = "reading"]
    /\ UNCHANGED <<value, conversation, pc, call, db, logs, page>>

\* The insert fails: the handler sends Close and returns.
UpgradeFails ==
    /\ socket.pc = "upgrading"
    /\ socket' = [socket EXCEPT !.sent = Append(@, Frame("Close", ReadNone)),
                                !.pc = "closed"]
    /\ UNCHANGED <<value, conversation, pc, call, db, logs, page>>

\* A handler that takes a Ping or Pong for the end of the connection.
Recv_ping_closes ==
    /\ socket.pc = "reading"
    /\ IF socket.next > Len(socket.frames)
       THEN socket' = [socket EXCEPT !.pc = "closed"]
       ELSE LET msg == socket.frames[socket.next]
                taken == [socket EXCEPT !.next = @ + 1, !.now = socket.next]
            IN  CASE msg.type \in {"Error", "Close", "Ping", "Pong"} ->
                       socket' = [taken EXCEPT !.pc = "closed"]
                  [] msg.type \in {"Text", "Binary"} /\ msg.read.ok # "Some" ->
                       socket' = taken
                  [] OTHER ->
                       socket' = [taken EXCEPT !.msg = msg.read,
                                               !.pc = "logging"]
    /\ UNCHANGED <<value, conversation, pc, call, db, logs, page>>

\* One pass of the while loop up to the call of log_message.  The time of
\* receipt is the position of the frame on the connection.
Recv ==
    /\ socket.pc = "reading"
    /\ IF socket.next > Len(socket.frames)
       THEN socket' = [socket EXCEPT !.pc = "closed"]
       ELSE LET msg == socket.frames[socket.next]
                taken == [socket EXCEPT !.next = @ + 1, !.now = socket.next]
            IN  CASE msg.type = "Error" ->
                       socket' = [taken EXCEPT !.pc = "closed"]
                  [] msg.type = "Close" ->
                       socket' = [taken EXCEPT !.pc = "closed"]
                  [] msg.type \in {"Ping", "Pong"} -> socket' = taken
                  [] msg.type \in {"Text", "Binary"} /\ msg.read.ok = "Err" ->
                       socket' = taken
                  [] msg.type \in {"Text", "Binary"} /\ msg.read.ok = "None" ->
                       socket' = taken
                  [] OTHER ->
                       socket' = [taken EXCEPT !.msg = msg.read,
                                               !.pc = "logging"]
    /\ UNCHANGED <<value, conversation, pc, call, db, logs, page>>

\* RETURNING id: the key the table assigns to a new row, from its sequence.
NextId(rows) == Len(rows) + 1

\* The is_error, result and error_code columns of a response, from the three
\* branches on resp.error and resp.result.
ResponseColumns(read) ==
    IF read.error = "Some"
    THEN [is_error |-> TRUE, result |-> "None", error_code |-> "Some"]
    ELSE IF read.result = "Some"
         THEN [is_error |-> FALSE, result |-> "Some", error_code |-> "None"]
         ELSE [is_error |-> FALSE, result |-> "None", error_code |-> "None"]

\* A log_message that flags an error by the absence of a result.
log_message_flagging_no_result(rows, msg, session_id, received_time) ==
    IF msg.message.kind = "Response"
    THEN [rows EXCEPT !.responses = Append(@,
             [id |-> NextId(rows.responses), session_id |-> session_id,
              is_error |-> msg.result = "None", result |-> msg.result,
              error_code |-> msg.error, time_stamp |-> received_time])]
    ELSE rows

\* log_message with its INSERT succeeding: the tables afterwards.
log_message(rows, msg, session_id, received_time) ==
    CASE msg.message.kind = "Request" ->
           [rows EXCEPT !.requests = Append(@,
               [id |-> NextId(rows.requests),
                request_id |-> Display(msg.message.id),
                session_id |-> session_id,
                method |-> msg.message.method,
                params |-> msg.message.params,
                time_stamp |-> received_time])]
      [] msg.message.kind = "Notification" ->
           [rows EXCEPT !.notifications = Append(@,
               [id |-> NextId(rows.notifications),
                session_id |-> session_id,
                method |-> msg.message.method,
                params |-> msg.message.params,
                time_stamp |-> received_time,
                source |-> "Client"])]
      [] msg.message.kind = "Response" ->
           [rows EXCEPT !.responses = Append(@,
               [id |-> NextId(rows.responses),
                session_id |-> session_id,
                is_error |-> ResponseColumns(msg).is_error,
                result |-> ResponseColumns(msg).result,
                error_code |-> ResponseColumns(msg).error_code,
                time_stamp |-> received_time])]

\* The call as handle_log makes it: without a session.
LogMessage_sessionless ==
    /\ socket.pc = "logging"
    /\ \E inserted \in BOOLEAN :
          /\ db' = IF inserted
                   THEN log_message(db, socket.msg, NoSession, socket.now)
                   ELSE db
          /\ socket' = [socket EXCEPT
                !.pc = "reading",
                !.logged = Append(@,
                    [msg |-> socket.msg, received_time |-> socket.now,
                     status |-> IF inserted THEN "CREATED"
                                ELSE "INTERNAL_SERVER_ERROR"])]
    /\ UNCHANGED <<value, conversation, pc, call, logs, page>>

\* The rest of the pass: log_message(&state.db, msg, Some(session_id), now),
\* whose INSERT succeeds (CREATED) or fails (INTERNAL_SERVER_ERROR); the
\* handler ignores the status and reads on.
LogMessage ==
    /\ socket.pc = "logging"
    /\ \E inserted \in BOOLEAN :
          /\ db' = IF inserted
                   THEN log_message(db, socket.msg, socket.session_id,
                                    socket.now)
                   ELSE db
          /\ socket' = [socket EXCEPT
                !.pc = "reading",
                !.logged = Append(@,
                    [msg |-> socket.msg, received_time |-> socket.now,
                     status |-> IF inserted THEN "CREATED"
                                ELSE "INTERNAL_SERVER_ERROR"])]
    /\ UNCHANGED <<value, conversation, pc, call, logs, page>>

\* SELECT * FROM <table> WHERE session_id = $1
SessionRows(rows, session_id) ==
    Db(SelectSeq(rows.requests, LAMBDA r : r.session_id = session_id),
       SelectSeq(rows.responses, LAMBDA r : r.session_id = session_id),
       SelectSeq(rows.notifications, LAMBDA r : r.session_id = session_id))

\* The loader on the recorded session, once the connection is over.
LoadSession ==
    /\ socket.pc = "closed"
    /\ socket.session_id # NoSession
    /\ pc = "stored"
    /\ ~LoadPanics(SessionRows(db, socket.session_id))
    /\ value' = sort_by_time_stamp(
                    all_messages(SessionRows(db, socket.session_id)))
    /\ conversation' = ConversationFrom(value')
    /\ pc' = "built"
    /\ UNCHANGED <<call, db, socket, logs, page>>

LoadSessionPanic ==
    /\ socket.pc = "closed"
    /\ socket.session_id # NoSession
    /\ pc = "stored"
    /\ LoadPanics(SessionRows(db, socket.session_id))
    /\ pc' = "panicked"
    /\ UNCHANGED <<value, conversation, call, db, socket, logs, page>>

NextIngest ==
    \/ Upgrade
    \/ UpgradeFails
    \/ Recv
    \/ LogMessage
    \/ LoadSession
    \/ LoadSessionPanic

SpecIngest == InitIngest /\ [][NextIngest]_vars

(***************************************************************************)
(* Vocabulary of the ingest properties.                                    *)
(***************************************************************************)
\* The calls of log_message whose INSERT succeeded, for one kind of message.
Recorded(kind) ==
    SelectSeq(socket.logged,
              LAMBDA l : l.status = "CREATED" /\ l.msg.message.kind = kind)

\* A request id as it comes back from storage: printed, then read as a string.
Reloaded(id) == IdString(Display(id))

(***************************************************************************)
(* C21: every response row of a recorded session has a request row of the  *)
(* session with the same key, so the loader never panics on a recorded     *)
(* session, and each loaded Response carries the id of the request it      *)
(* answered on the wire.                                                   *)
(***************************************************************************)
C21_ResponsesHaveTheirRequest ==
    /\ pc # "panicked"
    /\ socket.pc = "closed" =>
          \A i \in 1..Len(db.responses) :
             \E j \in 1..Len(db.requests) :
                db.requests[j].id = db.responses[i].id
    /\ pc = "built" =>
          /\ Len(OfKind("Response")) = Len(Recorded("Response"))
          /\ \A i \in 1..Len(OfKind("Response")) :
                OfKind("Response")[i].message.id
                  = Reloaded(Recorded("Response")[i].msg.message.id)

(***************************************************************************)
(* C22: request ids survive storage well enough for cancel correlation: a  *)
(* request captured with id n is found, after a reload of the session, by  *)
(* a "$/cancelRequest" whose params id is n, so classify of the cancel is  *)
(* the request's category; for numeric and for string ids.                 *)
(***************************************************************************)
C22_CancelFindsStoredRequest ==
    pc = "built" =>
        \A i \in 1..Len(conversation.messages) :
            IsCancel(conversation.messages[i].message) =>
                \A k \in 1..Len(Recorded("Request")) :
                    Recorded("Request")[k].msg.message.id
                        = WireCancelId(conversation.messages[i].message)
                    => classify(conversation.messages[i].message, conversation)
                         = classify_request(Recorded("Request")[k].msg.message)

(***************************************************************************)
(* C23: every response row written by log_message with is_error = TRUE has *)
(* an error_code, and a row has is_error = TRUE exactly when the response  *)
(* on the wire had an error; so the loader's expectation "error_code to    *)
(* have a value when is_error is true" holds for recorded sessions.        *)
(***************************************************************************)
C23_ErrorRowsHaveACode ==
    /\ Len(db.responses) = Len(Recorded("Response"))
    /\ \A i \in 1..Len(db.responses) :
          /\ db.responses[i].is_error
               <=> Recorded("Response")[i].msg.error = "Some"
          /\ db.responses[i].is_error => db.responses[i].error_code = "Some"

C23_Witness ==
    /\ socket.pc = "closed"
    /\ \E i, j \in 1..Len(db.responses) :
          /\ db.responses[i].is_error
          /\ db.responses[i].error_code = "Some"
          /\ ~db.responses[j].is_error
          /\ db.responses[j].result = "None"

(***************************************************************************)
(* C24: a frame that yields no message (Ping, Pong, malformed bytes, an     *)
(* empty read) writes no row and does not end the session: every           *)
(* well-formed message received after it and before a Close frame or a     *)
(* receive error is still recorded.                                        *)
(***************************************************************************)
\* The position of the first Close frame or receive error, and the length of
\* the connection plus one when there is none.
EndOfSession ==
    LET ends == {k \in 1..Len(socket.frames) :
                    socket.frames[k].type \in {"Close", "Error"}}
    IN  IF ends = {} THEN Len(socket.frames) + 1
        ELSE CHOOSE k \in ends : \A l \in ends : k <= l

Yields(k) ==
    /\ socket.frames[k].type \in {"Text", "Binary"}
    /\ socket.frames[k].read.ok = "Some"

NoMessage(k) == k < EndOfSession /\ ~Yields(k)

\* The rows of every table, as a set.
Rows ==
    {db.requests[i] : i \in 1..Len(db.requests)}
    \cup {db.responses[i] : i \in 1..Len(db.responses)}
    \cup {db.notifications[i] : i \in 1..Len(db.notifications)}

\* The frame at position k has its row; its INSERT failed.
HasRow(k) ==
    \E row \in Rows :
        row.time_stamp = k /\ row.session_id = socket.session_id

InsertFailed(k) ==
    \E i \in 1..Len(socket.logged) :
        /\ socket.logged[i].received_time = k
        /\ socket.logged[i].msg = socket.frames[k].read
        /\ socket.logged[i].status = "INTERNAL_SERVER_ERROR"

Served == socket.pc = "closed" /\ socket.session_id # NoSession

Appended(before, after, row) ==
    \/ after = [before EXCEPT !.requests = Append(@, row)]
    \/ after = [before EXCEPT !.responses = Append(@, row)]
    \/ after = [before EXCEPT !.notifications = Append(@, row)]

C25_OneAtATimeInOrder ==
    [][/\ socket'.next # socket.next => socket.pc = "reading"
       /\ db' # db =>
             /\ socket.pc = "logging"
             /\ socket'.pc = "reading"
             /\ socket'.next = socket.next
             /\ socket.now = socket.next - 1
             /\ socket.now < EndOfSession
             /\ socket.msg = socket.frames[socket.now].read
             /\ \E row \in Rows' :
                   /\ Appended(db, db', row)
                   /\ row.session_id = socket.session_id
                   /\ row.time_stamp = socket.now
                   /\ \A other \in Rows : other.time_stamp < row.time_stamp
       /\ socket.pc = "closed" => db' = db]_vars

C25_Witness ==
    /\ Served
    /\ \E row \in Rows : row.time_stamp < EndOfSession
    /\ \E k \in 1..Len(socket.frames) :
          /\ k > EndOfSession
          /\ Yields(k)
          /\ ~HasRow(k)

(***************************************************************************)
(* C26: when creating the session row fails, the handler sends a Close     *)
(* frame and returns without reading a frame: no request, response or      *)
(* notification row is ever written for the connection.                    *)
(***************************************************************************)
C26_NoSessionNoRecord ==
    socket.session_id = NoSession =>
        /\ socket.pc \in {"upgrading", "closed"}
        /\ socket.next = 1
        /\ socket.logged = <<>>
        /\ db = EmptyDb
        /\ socket.pc = "closed" => socket.sent = <<Frame("Close", ReadNone)>>

C26_Witness ==
    /\ socket.pc = "closed"
    /\ socket.session_id = NoSession
    /\ Len(socket.frames) > 0
    /\ Yields(1)
    /\ db = EmptyDb

(***************************************************************************)
(* The tracing layer: PostgresLayer keeps the fields of every span and     *)
(* writes one row of logs per event.                                       *)
(***************************************************************************)
\* At most MaxEvents events are logged.
MaxEvents == 2

JBool == [j |-> "bool", n |-> 0, s |-> ""]

\* Option<i32>
NoneI32 == [some |-> FALSE, n |-> 0]
SomeI32(n) == [some |-> TRUE, n |-> n]

\* serde_json::Map::get: the fields of an event or span are a function from
\* field names to JSON values.
Get(fields, key) == IF key \in DOMAIN fields THEN fields[key] ELSE JAbsent

\* str::parse::<i64>, on the decimal numerals of one digit.
parse_i64(str) ==
    IF \E n \in 1..9 : ToString(n) = str
    THEN SomeI32(CHOOSE n \in 1..9 : ToString(n) = str)
    ELSE NoneI32

\* The closure on_event applies to the fields of the event and of each span.
\* A number that does not fit an i32 ("other") gives None; a Bool, Array or
\* Object panics.
session_id_of(fields) ==
    LET field == Get(fields, "session_id")
    IN  CASE field.j = "number" -> SomeI32(field.n)
          [] field.j = "string" -> parse_i64(field.s)
          [] OTHER -> NoneI32

\* for (i, span) in scope.from_root(): the first span with a session id
\* decides, when the event has none.
RECURSIVE from_root(_, _, _)
from_root(scope, i, session_id) ==
    IF i > Len(scope) THEN session_id
    ELSE from_root(scope, i + 1,
                   IF session_id.some THEN session_id
                   ELSE session_id_of(scope[i].fields))

SessionIdPanics(fields) == Get(fields, "session_id").j = "bool"

\* info_span!("session_id", session = session_id)
SessionSpan(session_id) ==
    [name |-> "session_id", fields |-> [k \in {"session"} |-> JNumber(session_id)]]

\* The fields of the events: the error! calls of the ingest endpoint carry a
\* message only; an event may also name its session itself.
EventFields ==
    {[k \in {"message"} |-> JString(message)] :
        message \in {"Malformed lsp_message", "Failed to log a request"}}
    \cup {[k \in {"message", "session_id"} |->
              IF k = "message" THEN JString("event") ELSE session_id] :
            session_id \in {JNumber(2), JString("2"), JString("x"), JNull,
                            JOther, JBool}}

\* The state of the subscriber: the handler's session and the spans it has
\* entered (scope), the rows of logs and of log_spans, and for every row of
\* logs the session of the handler that emitted the event (emitted).
Logs(at, session, scope, rows, span_rows, emitted) ==
    [pc |-> at, session |-> session, scope |-> scope, rows |-> rows,
     span_rows |-> span_rows, emitted |-> emitted]

InitLogs ==
    /\ logs = Logs("idle", NoSession, <<>>, <<>>, <<>>, <<>>)
    /\ socket = NoSocket
    /\ page = NoPage
    /\ db = EmptyDb
    /\ value = <<>>
    /\ conversation = Conversation(<<>>, EmptyMap, EmptyMap)
    /\ pc = "stored"
    /\ call = NoCall

\* handle_ws_upgrade creates and enters the session span; on_new_span stores
\* its fields.
EnterSession ==
    /\ logs.pc = "idle"
    /\ \E session_id \in {1, 2} :
          logs' = [logs EXCEPT !.pc = "session", !.session = session_id,
                               !.scope = <<SessionSpan(session_id)>>]
    /\ UNCHANGED <<value, conversation, pc, call, db, socket, page>>

\* handle_ws_upgrade returns: the span is exited.
ExitSession ==
    /\ logs.pc = "session"
    /\ logs' = [logs EXCEPT !.pc = "idle", !.session = NoSession,
                            !.scope = <<>>]
    /\ UNCHANGED <<value, conversation, pc, call, db, socket, page>>

\* PostgresLayer::on_event
on_event(fields) ==
    /\ logs.pc \in {"idle", "session"}
    /\ Len(logs.rows) < MaxEvents
    /\ IF SessionIdPanics(fields)
       THEN logs' = [logs EXCEPT !.pc = "panicked"]
       ELSE logs' = [logs EXCEPT
               !.rows = Append(@,
                   [session_id |-> from_root(logs.scope, 1,
                                             session_id_of(fields)),
                    message |-> fields["message"].s,
                    fields |-> [k \in DOMAIN fields \ {"message"} |->
                                   fields[k]]]),
               !.span_rows = @ \o [i \in 1..Len(logs.scope) |->
                   [index |-> i - 1, name |-> logs.scope[i].name,
                    fields |-> logs.scope[i].fields]],
               !.emitted = Append(@, logs.session)]
    /\ UNCHANGED <<value, conversation, pc, call, db, socket, page>>

NextLogs ==
    \/ EnterSession
    \/ ExitSession
    \/ \E fields \in EventFields : on_event(fields)

SpecLogs == InitLogs /\ [][NextLogs]_vars

(***************************************************************************)
(* C27: an event logged inside a session's span is stored in logs with     *)
(* that session's id, taken from the event's own fields or, failing that,  *)
(* from the fields of the enclosing spans.                                 *)
(***************************************************************************)
C27_EventsCarryTheirSession ==
    \A i \in 1..Len(logs.rows) :
        logs.emitted[i] # NoSession =>
            /\ logs.rows[i].session_id.some
            /\ "session_id" \notin DOMAIN logs.rows[i].fields
                  => logs.rows[i].session_id = SomeI32(logs.emitted[i])

(***************************************************************************)
(* The session page: the filter parameters of the query, the allow list    *)
(* built from them, and the chat view.                                     *)
(*                                                                         *)
(* A str is modelled by the sequence of its words and the separators       *)
(* between them, so that "life cycle" and "life_cycle" are different       *)
(* values and str::replace is an operation on them.                        *)
(***************************************************************************)
\* At most MaxParams of the category parameters are supplied in a query.
MaxParams == 2

\* str::replace(from, to)
replace(str, from, to) ==
    [i \in 1..Len(str) |-> IF str[i] = from THEN to ELSE str[i]]

\* MessageKind::as_str
as_str(kind) ==
    CASE kind = "Lifecycle" -> <<"life", " ", "cycle">>
      [] kind = "TextDocumentSynchronization" -> <<"document", " ", "synchronization">>
      [] kind = "NotebookDocumentSynchronization" -> <<"notebook", " ", "synchronization">>
      [] kind = "WorkspaceSynchronization" -> <<"workspace", " ", "synchronization">>
      [] kind = "Workspace" -> <<"workspace">>
      [] kind = "Telemetry" -> <<"telemetry">>
      [] kind = "Declaration" -> <<"declaration">>
      [] kind = "Definition" -> <<"definition">>
      [] kind = "TypeDefinition" -> <<"type", " ", "definition">>
      [] kind = "Implementation" -> <<"implementation">>
      [] kind = "References" -> <<"references">>
      [] kind = "CallHierarchy" -> <<"call", " ", "hierarchy">>
      [] kind = "TypeHierarchy" -> <<"type", " ", "hierarchy">>
      [] kind = "DocumentHighlight" -> <<"document", " ", "highlight">>
      [] kind = "DocumentLink" -> <<"document", " ", "link">>
      [] kind = "Hover" -> <<"hover">>
      [] kind = "CodeLens" -> <<"code", " ", "lens">>
      [] kind = "FoldingRange" -> <<"folding", " ", "range">>
      [] kind = "Selection" -> <<"selection">>
      [] kind = "Symbol" -> <<"symbol">>
      [] kind = "SemanticTokens" -> <<"semantic", " ", "tokens">>
      [] kind = "InlayHint" -> <<"inlay", " ", "hint">>
      [] kind = "InlineValue" -> <<"inline", " ", "value">>
      [] kind = "Moniker" -> <<"moniker">>
      [] kind = "Completion" -> <<"completion">>
      [] kind = "Diagnostic" -> <<"diagnostic">>
      [] kind = "SignatureHelp" -> <<"signature", " ", "help">>
      [] kind = "CodeAction" -> <<"code", " ", "action">>
      [] kind = "DocumentColor" -> <<"document", " ", "color">>
      [] kind = "Formatting" -> <<"formatting">>
      [] kind = "Rename" -> <<"rename">>
      [] kind = "LinkedEditingRange" -> <<"linked", " ", "editing", " ", "range">>
      [] kind = "ExecuteCommand" -> <<"execute", " ", "command">>

\* The Option<bool> fields of GetSessionParams, in the order of the struct.
CategoryParams ==
    <<<<"life", "_", "cycle">>, <<"document", "_", "synchronization">>,
      <<"notebook", "_", "synchronization">>,
      <<"workspace", "_", "synchronization">>, <<"workspace">>,
      <<"telemetry">>, <<"declaration">>, <<"definition">>,
      <<"type", "_", "definition">>, <<"implementation">>,
      <<"references">>, <<"call", "_", "hierarchy">>,
      <<"type", "_", "hierarchy">>, <<"document", "_", "highlight">>,
      <<"document", "_", "link">>, <<"hover">>, <<"code", "_", "lens">>,
      <<"folding", "_", "range">>, <<"selection">>, <<"symbol">>,
      <<"semantic", "_", "tokens">>, <<"inlay", "_", "hint">>,
      <<"inline", "_", "value">>, <<"moniker">>, <<"completion">>,
      <<"diagnostic">>, <<"signature", "_", "help">>,
      <<"code", "_", "action">>, <<"document", "_", "color">>,
      <<"formatting">>, <<"rename">>,
      <<"linked", "_", "editing", "_", "range">>,
      <<"execute", "_", "command">>, <<"uncategorized">>>>

\* The conjuncts of show_all: the fields it requires to be None.
ShowAllParams ==
    {<<"life", "_", "cycle">>, <<"document", "_", "synchronization">>,
     <<"notebook", "_", "synchronization">>,
     <<"workspace", "_", "synchronization">>, <<"workspace">>,
     <<"telemetry">>, <<"declaration">>, <<"definition">>,
     <<"type", "_", "definition">>, <<"implementation">>, <<"references">>,
     <<"call", "_", "hierarchy">>, <<"type", "_", "hierarchy">>,
     <<"document", "_", "highlight">>, <<"document", "_", "link">>,
     <<"hover">>, <<"code", "_", "lens">>, <<"folding", "_", "range">>,
     <<"selection">>, <<"symbol">>, <<"semantic", "_", "tokens">>,
     <<"inlay", "_", "hint">>, <<"inline", "_", "value">>, <<"moniker">>,
     <<"completion">>, <<"diagnostic">>, <<"signature", "_", "help">>,
     <<"code", "_", "action">>, <<"document", "_", "color">>,
     <<"formatting">>, <<"rename">>,
     <<"linked", "_", "editing", "_", "range">>,
     <<"execute", "_", "command">>, <<"uncategorized">>}

\* The if statements of build_message_classification_allow_list: the field
\* each one tests and the entry it inserts, None for uncategorized.
AllowListArms ==
    {<<<<"life", "_", "cycle">>, "Lifecycle">>,
     <<<<"document", "_", "synchronization">>, "TextDocumentSynchronization">>,
     <<<<"notebook", "_", "synchronization">>, "NotebookDocumentSynchronization">>,
     <<<<"workspace", "_", "synchronization">>, "WorkspaceSynchronization">>,
     <<<<"workspace">>, "Workspace">>, <<<<"telemetry">>, "Telemetry">>,
     <<<<"declaration">>, "Declaration">>,
     <<<<"definition">>, "Definition">>,
     <<<<"type", "_", "definition">>, "TypeDefinition">>,
     <<<<"implementation">>, "Implementation">>,
     <<<<"references">>, "References">>,
     <<<<"call", "_", "hierarchy">>, "CallHierarchy">>,
     <<<<"type", "_", "hierarchy">>, "TypeHierarchy">>,
     <<<<"document", "_", "highlight">>, "DocumentHighlight">>,
     <<<<"document", "_", "link">>, "DocumentLink">>,
     <<<<"hover">>, "Hover">>, <<<<"code", "_", "lens">>, "CodeLens">>,
     <<<<"folding", "_", "range">>, "FoldingRange">>,
     <<<<"selection">>, "Selection">>, <<<<"symbol">>, "Symbol">>,
     <<<<"semantic", "_", "tokens">>, "SemanticTokens">>,
     <<<<"inlay", "_", "hint">>, "InlayHint">>,
     <<<<"inline", "_", "value">>, "InlineValue">>,
     <<<<"moniker">>, "Moniker">>, <<<<"completion">>, "Completion">>,
     <<<<"diagnostic">>, "Diagnostic">>,
     <<<<"signature", "_", "help">>, "SignatureHelp">>,
     <<<<"code", "_", "action">>, "CodeAction">>,
     <<<<"document", "_", "color">>, "DocumentColor">>,
     <<<<"formatting">>, "Formatting">>, <<<<"rename">>, "Rename">>,
     <<<<"linked", "_", "editing", "_", "range">>, "LinkedEditingRange">>,
     <<<<"execute", "_", "command">>, "ExecuteCommand">>,
     <<<<"uncategorized">>, "None">>}

\* The state of a page request: the query parameters, the outcome of the
\* session lookup, the allow list, the chat view and the response.
Page(at, request, session, allow_list, chat, status, headers) ==
    [pc |-> at, request |-> request, session |-> session,
     allow_list |-> allow_list, chat |-> chat, status |-> status,
     headers |-> headers]

\* GetSessionParams with the parameters picks[1..n] supplied, with the values
\* vals[1..n]; Option<bool> is "None", "Some(true)" or "Some(false)".
GetSessionParams(n, picks, vals) ==
    [param \in {CategoryParams[i] : i \in 1..Len(CategoryParams)} |->
        IF \E i \in 1..n : CategoryParams[picks[i]] = param
        THEN vals[CHOOSE i \in 1..n : CategoryParams[picks[i]] = param]
        ELSE "None"]

\* An allow list that takes a parameter set to false for one not supplied.
build_message_classification_allow_list_unless_false(request) ==
    LET show_all == \A param \in ShowAllParams :
                        request[param] # "Some(true)"
    IN  {arm[2] : arm \in {a \in AllowListArms :
                              show_all \/ request[a[1]] = "Some(true)"}}

\* GetSessionParams::build_message_classification_allow_list
build_message_classification_allow_list(request) ==
    LET show_all == \A param \in ShowAllParams : request[param] = "None"
    IN  {arm[2] : arm \in {a \in AllowListArms :
                              show_all \/ request[a[1]] = "Some(true)"}}

InitAllow ==
    /\ \E n \in 0..MaxParams :
          \E picks \in [1..n -> 1..Len(CategoryParams)] :
             /\ \A i, j \in 1..n : i < j => picks[i] < picks[j]
             /\ \E vals \in [1..n -> {"Some(true)", "Some(false)"}] :
                   page = Page("query", GetSessionParams(n, picks, vals),
                               "None", {}, <<>>, "None", {})
    /\ socket = NoSocket
    /\ logs = NoLogs
    /\ db = EmptyDb
    /\ value = <<>>
    /\ conversation = Conversation(<<>>, EmptyMap, EmptyMap)
    /\ pc = "stored"
    /\ call = NoCall

\* let allow_list = request.build_message_classification_allow_list();
BuildAllowList ==
    /\ page.pc = "query"
    /\ page' = [page EXCEPT
          !.allow_list = build_message_classification_allow_list(page.request),
          !.pc = "filtered"]
    /\ UNCHANGED <<value, conversation, pc, call, db, socket, logs>>

NextAllow == BuildAllowList

SpecAllow == InitAllow /\ [][NextAllow]_vars

(***************************************************************************)
(* C28: with no category parameter supplied the allow list is all 33       *)
(* MessageKind values plus None; with at least one supplied, true or       *)
(* false, it contains kind k exactly when the parameter named k.as_str()   *)
(* with spaces replaced by underscores is Some(true), and None exactly     *)
(* when uncategorized is Some(true).                                       *)
(***************************************************************************)
MessageKinds == {MessageKind_all[k] : k \in 1..Len(MessageKind_all)}

\* The name of the checkbox the filter form emits for a kind.
CheckboxName(kind) == replace(as_str(kind), " ", "_")

C28_AllowList ==
    page.pc = "filtered" =>
        IF \A param \in DOMAIN page.request : page.request[param] = "None"
        THEN /\ page.allow_list = MessageKinds \cup {"None"}
             /\ Cardinality(page.allow_list) = 34
        ELSE /\ page.allow_list \subseteq MessageKinds \cup {"None"}
             /\ \A kind \in MessageKinds :
                   /\ CheckboxName(kind) \in DOMAIN page.request
                   /\ kind \in page.allow_list
                        <=> page.request[CheckboxName(kind)] = "Some(true)"
             /\ "None" \in page.allow_list
                  <=> page.request[<<"uncategorized">>] = "Some(true)"

C28_Witness ==
    /\ page.pc = "filtered"
    /\ page.request[<<"life", "_", "cycle">>] = "Some(true)"
    /\ page.request[<<"uncategorized">>] = "Some(false)"
    /\ page.allow_list = {"Lifecycle"}

(***************************************************************************)
(* The chat view.                                                          *)
(***************************************************************************)
\* The text of the <summary> of a message.
Summary(message, conversation_) ==
    CASE message.kind = "Response" ->
           IF message.id \in DOMAIN conversation_.requests
           THEN conversation_.requests[message.id].method
           ELSE "Unknown Response"
      [] OTHER -> message.method

\* What append_chat_html_to pushes for one message: the class chosen from
\* get_source, the summary, the message and its time stamp.
ChatEntry(message_with_time_stamp, conversation_) ==
    [source |-> get_source(message_with_time_stamp.message, conversation_),
     summary |-> Summary(message_with_time_stamp.message, conversation_),
     message |-> message_with_time_stamp.message,
     time_stamp |-> message_with_time_stamp.time_stamp]

\* A chat view that filters requests and notifications and shows every
\* response.
append_chat_html_to_all_responses(conversation_, allow_list) ==
    LET shown == SelectSeq(conversation_.messages,
                    LAMBDA m : \/ m.message.kind = "Response"
                               \/ classify(m.message, conversation_)
                                    \in allow_list)
    IN  [i \in 1..Len(shown) |-> ChatEntry(shown[i], conversation_)]

\* append_chat_html_to: the entries of <div id="chat">, in order.
append_chat_html_to(conversation_, allow_list) ==
    LET shown == SelectSeq(conversation_.messages,
                    LAMBDA m : classify(m.message, conversation_)
                                 \in allow_list)
    IN  [i \in 1..Len(shown) |-> ChatEntry(shown[i], conversation_)]

\* The messages of the sessions the chat view is checked on.
ChatMessages ==
    {Request(IdI32(1), "textDocument/hover", TokA),
     Request(IdString("1"), "workspace/applyEdit", EmptyParams),
     Response(IdI32(1)),
     Response(IdString("1")),
     Notification("textDocument/didOpen", EmptyParams),
     Notification("custom/unknown", EmptyParams)}

\* The category parameters the queries of these sessions supply.
ChatParams ==
    {i \in 1..Len(CategoryParams) :
        CategoryParams[i] \in {<<"hover">>, <<"workspace">>,
                               <<"document", "_", "synchronization">>,
                               <<"uncategorized">>}}

InitChat ==
    /\ \E n \in 0..MaxLen : \E f \in [1..n -> ChatMessages] :
          value = Session(n, f)
    /\ \E n \in 0..MaxParams :
          \E picks \in [1..n -> ChatParams] :
             /\ \A i, j \in 1..n : i < j => picks[i] < picks[j]
             /\ \E vals \in [1..n -> {"Some(true)", "Some(false)"}] :
                   page = Page("query", GetSessionParams(n, picks, vals),
                               "None", {}, <<>>, "None", {})
    /\ conversation = Conversation(<<>>, EmptyMap, EmptyMap)
    /\ pc = "loaded"
    /\ call = NoCall
    /\ db = EmptyDb
    /\ socket = NoSocket
    /\ logs = NoLogs

\* let allow_list = request.build_message_classification_allow_list();
\* append_chat_html_to(&mut html, &conversation, &allow_list);
AppendChat ==
    /\ pc = "built"
    /\ page.pc = "query"
    /\ page' = [page EXCEPT
          !.allow_list = build_message_classification_allow_list(page.request),
          !.chat = append_chat_html_to(
                       conversation,
                       build_message_classification_allow_list(page.request)),
          !.pc = "rendered"]
    /\ UNCHANGED <<value, conversation, pc, call, db, socket, logs>>

NextChat ==
    \/ From
    \/ AppendChat

SpecChat == InitChat /\ [][NextChat]_vars

(***************************************************************************)
(* C29: the chat view renders a message if and only if its classification  *)
(* is in the allow list, keeping the order of the conversation; so, when    *)
(* request ids are unique, a response is shown under a filter exactly when  *)
(* the request it answers is shown.                                         *)
(***************************************************************************)
\* The message at position i of the session has an entry in the chat view.
Shown(i) ==
    \E k \in 1..Len(page.chat) :
        /\ page.chat[k].message = value[i].message
        /\ page.chat[k].time_stamp = value[i].time_stamp

C29_ChatShowsAllowedMessages ==
    page.pc = "rendered" =>
        /\ [k \in 1..Len(page.chat) |->
               MessageWithTimeStamp(page.chat[k].time_stamp,
                                    page.chat[k].message)]
             = SelectSeq(conversation.messages,
                   LAMBDA m : classify(m.message, conversation)
                                \in page.allow_list)
        /\ NoDuplicateIds =>
              \A i \in 1..Len(value) : \A j \in RequestPositions :
                  /\ value[i].message.kind = "Response"
                  /\ value[i].message.id = value[j].message.id
                  => (Shown(i) <=> Shown(j))

C29_Witness ==
    /\ page.pc = "rendered"
    /\ NoDuplicateIds
    /\ Len(page.chat) = 1
    /\ \E i \in 1..Len(value) : \E j \in RequestPositions :
          /\ value[i].message.kind = "Response"
          /\ value[i].message.id = value[j].message.id
          /\ ~Shown(i)
          /\ ~Shown(j)

(***************************************************************************)
(* get_session: the session lookup, the loader, the page.                  *)
(***************************************************************************)
\* The rows of the sessions the page is requested for: no message, a request
\* alone, a request and the response row with the same key, a request and a
\* notification, and a response row whose key no request row has.
HoverRecord ==
    [id |-> 1, request_id |-> "1", method |-> "textDocument/hover",
     params |-> TokA, time_stamp |-> 1]

ResponseRecord(id) ==
    [id |-> id, is_error |-> FALSE, error_code |-> "None", time_stamp |-> 2]

DidOpenRecord ==
    [method |-> "textDocument/didOpen", params |-> EmptyParams,
     time_stamp |-> 2]

PageDbs ==
    {EmptyDb,
     Db(<<HoverRecord>>, <<>>, <<>>),
     Db(<<HoverRecord>>, <<ResponseRecord(1)>>, <<>>),
     Db(<<HoverRecord>>, <<>>, <<DidOpenRecord>>),
     Db(<<HoverRecord>>, <<ResponseRecord(2)>>, <<>>)}

\* The outcome of SELECT id, end_time_stamp FROM sessions WHERE id = $1: no
\* row, another sqlx::Error, or the row, with or without end_time_stamp.
SessionLookups == {"RowNotFound", "Err", "Ended", "Open"}

\* page.session is the outcome of the lookup and page.status, until the
\* handler is done, the outcome ("Ok" or "Err") the loader's queries will have.
InitPage ==
    /\ db \in PageDbs
    /\ \E n \in 0..MaxParams :
          \E picks \in [1..n -> ChatParams] :
             /\ \A i, j \in 1..n : i < j => picks[i] < picks[j]
             /\ \E vals \in [1..n -> {"Some(true)", "Some(false)"}] :
                   \E session \in SessionLookups : \E queries \in {"Ok", "Err"} :
                      page = Page("query", GetSessionParams(n, picks, vals),
                                  session, {}, <<>>, queries, {})
    /\ value = <<>>
    /\ conversation = Conversation(<<>>, EmptyMap, EmptyMap)
    /\ pc = "stored"
    /\ call = NoCall
    /\ socket = NoSocket
    /\ logs = NoLogs

\* The lookup fails: Err(NOT_FOUND) for RowNotFound, else
\* Err(INTERNAL_SERVER_ERROR).
GetSessionLookupFails ==
    /\ page.pc = "query"
    /\ page.session \in {"RowNotFound", "Err"}
    /\ page' = [page EXCEPT
          !.pc = "done",
          !.status = IF page.session = "RowNotFound" THEN "NOT_FOUND"
                     ELSE "INTERNAL_SERVER_ERROR"]
    /\ UNCHANGED <<value, conversation, pc, call, db, socket, logs>>

\* The loader returns Err: Err(INTERNAL_SERVER_ERROR).
GetSessionLoadFails ==
    /\ page.pc = "query"
    /\ page.session \in {"Ended", "Open"}
    /\ page.status = "Err"
    /\ page' = [page EXCEPT !.pc = "done", !.status = "INTERNAL_SERVER_ERROR"]
    /\ pc' = "error"
    /\ UNCHANGED <<value, conversation, call, db, socket, logs>>

\* The loader panics in an expect(): the handler's task ends without a
\* response.
GetSessionPanics ==
    /\ page.pc = "query"
    /\ page.session \in {"Ended", "Open"}
    /\ page.status = "Ok"
    /\ LoadPanics(db)
    /\ page' = [page EXCEPT !.pc = "panicked", !.status = "None"]
    /\ pc' = "panicked"
    /\ UNCHANGED <<value, conversation, call, db, socket, logs>>

\* The page is built: Ok((StatusCode::OK, headers, Html(html))).
GetSession ==
    /\ page.pc = "query"
    /\ page.session \in {"Ended", "Open"}
    /\ page.status = "Ok"
    /\ ~LoadPanics(db)
    /\ value' = sort_by_time_stamp(all_messages(db))
    /\ conversation' = ConversationFrom(value')
    /\ pc' = "built"
    /\ page' = [page EXCEPT
          !.pc = "done",
          !.allow_list = build_message_classification_allow_list(page.request),
          !.chat = append_chat_html_to(
                       conversation',
                       build_message_classification_allow_list(page.request)),
          !.status = "OK",
          !.headers = IF page.session = "Ended" THEN {"immutable"}
                      ELSE {"no-store"}]
    /\ UNCHANGED <<call, db, socket, logs>>

NextPage ==
    \/ GetSessionLookupFails
    \/ GetSessionLoadFails
    \/ GetSessionPanics
    \/ GetSession

SpecPage == InitPage /\ [][NextPage]_vars

(***************************************************************************)
(* C30: get_session maps the storage outcomes to responses, never with a   *)
(* partial page: no session row gives 404, any other storage failure       *)
(* (lookup or load) gives 500, and otherwise the response is 200 with the  *)
(* header "immutable" when end_time_stamp is set and "no-store" when not.  *)
(***************************************************************************)
C30_StatusOfStorageOutcome ==
    page.pc # "query" =>
        CASE page.session = "RowNotFound" ->
               page.status = "NOT_FOUND" /\ page.chat = <<>>
          [] page.session = "Err" \/ pc = "error" ->
               page.status = "INTERNAL_SERVER_ERROR" /\ page.chat = <<>>
          [] OTHER ->
               /\ page.status = "OK"
               /\ page.headers = IF page.session = "Ended"
                                 THEN {"immutable"} ELSE {"no-store"}

====
